---------------------------- MODULE Spec2Model ----------------------------
(***************************************************************************)
(* Canonicalization and consolidation engine of the PDF-to-Excel converter. *)
(*                                                                         *)
(* Two programs are modelled, each from its own source file:               *)
(*   src/app.py          upload_and_convert_pdfs, generate_excel_report    *)
(*   src/Backend/app.py  infer_categories_and_structure, generate_excel    *)
(* Python strings are TLA+ strings, taken apart character by character     *)
(* with SubSeq and put together with \o.  A Python float is modelled as an *)
(* exact decimal m / 10^e; binary rounding of floats is not modelled.      *)
(***************************************************************************)
EXTENDS Integers, Sequences, FiniteSets, Bags, TLC

\* ------------------------------------------------------------------ bounds
\* Longest string drawn for the pure functions (clean_value, the resolvers).
MaxLen == 3
\* Most items one request holds.
MaxItems == 2
\* Most (year, amount) pairs one item holds.
MaxPairs == 2

\* ----------------------------------------------------------------- strings
Char(s, i) == SubSeq(s, i, i)

Digits == {"0", "1", "2", "3", "4", "5", "6", "7", "8", "9"}

\* What Python's str.strip and the regex class \s take for whitespace
\* (the characters of it that the model's inputs use).
Whitespace == {" ", "\t", "\n"}

UpperCase == "ABCDEFGHIJKLMNOPQRSTUVWXYZ"
LowerCase == "abcdefghijklmnopqrstuvwxyz"

\* str.lower on one character.
LowerChar(c) ==
    IF \E i \in 1..Len(UpperCase) : Char(UpperCase, i) = c
    THEN Char(LowerCase, CHOOSE i \in 1..Len(UpperCase) : Char(UpperCase, i) = c)
    ELSE c

\* str.lower
Lower(s) ==
    LET F[i \in 0..Len(s)] == IF i = 0 THEN "" ELSE F[i - 1] \o LowerChar(Char(s, i))
    IN  F[Len(s)]

\* str.strip
Strip(s) ==
    LET keep == {i \in 1..Len(s) : Char(s, i) \notin Whitespace}
    IN  IF keep = {} THEN ""
        ELSE SubSeq(s, CHOOSE i \in keep : \A j \in keep : i <= j,
                       CHOOSE i \in keep : \A j \in keep : j <= i)

\* The characters of s that are in the set keep, in order: re.sub of the
\* complement class by the empty string.
KeepChars(s, keep) ==
    LET F[i \in 0..Len(s)] ==
            IF i = 0 THEN ""
            ELSE IF Char(s, i) \in keep THEN F[i - 1] \o Char(s, i) ELSE F[i - 1]
    IN  F[Len(s)]

CountChar(s, c) == Cardinality({i \in 1..Len(s) : Char(s, i) = c})

StartsWith(s, p) == Len(s) >= Len(p) /\ SubSeq(s, 1, Len(p)) = p
EndsWith(s, p) == Len(s) >= Len(p) /\ SubSeq(s, Len(s) - Len(p) + 1, Len(s)) = p

\* Python's "sub in s".
Contains(s, sub) ==
    \E i \in 1..(Len(s) - Len(sub) + 1) : SubSeq(s, i, i + Len(sub) - 1) = sub

\* str.replace(old, new), leftmost non-overlapping occurrences, old non-empty.
RECURSIVE Replace(_, _, _)
Replace(s, old, new) ==
    IF Len(s) < Len(old) THEN s
    ELSE IF SubSeq(s, 1, Len(old)) = old
         THEN new \o Replace(SubSeq(s, Len(old) + 1, Len(s)), old, new)
         ELSE Char(s, 1) \o Replace(SubSeq(s, 2, Len(s)), old, new)

\* normalize_text: runs of whitespace become one space, then strip.
normalize_text(text) ==
    LET F[i \in 0..Len(text)] ==
            IF i = 0 THEN ""
            ELSE IF Char(text, i) \in Whitespace
                 THEN IF i > 1 /\ Char(text, i - 1) \in Whitespace
                      THEN F[i - 1] ELSE F[i - 1] \o " "
                 ELSE F[i - 1] \o Char(text, i)
    IN  Strip(F[Len(text)])

\* ----------------------------------------------------------------- numbers
\* A float as the exact decimal m / 10^e, kept normal: e = 0 or 10 does not
\* divide m.  None is a value of the same shape, so that slots compare.
RECURSIVE Dec(_, _)
Dec(m, e) ==
    IF e > 0 /\ m % 10 = 0 THEN Dec(m \div 10, e - 1)
    ELSE [k |-> "num", m |-> m, e |-> e]

None == [k |-> "none", m |-> 0, e |-> 0]

Num(n) == Dec(n, 0)

RECURSIVE Pow10(_)
Pow10(n) == IF n = 0 THEN 1 ELSE 10 * Pow10(n - 1)

\* a + b on floats
Add(a, b) ==
    LET e == IF a.e >= b.e THEN a.e ELSE b.e
    IN  Dec(a.m * Pow10(e - a.e) + b.m * Pow10(e - b.e), e)

Neg(a) == Dec(0 - a.m, a.e)
Abs(a) == IF a.m < 0 THEN Neg(a) ELSE a
IsPos(a) == a.m > 0
IsNeg(a) == a.m < 0
IsZero(a) == a.m = 0

DigitVal(c) == CHOOSE n \in 0..9 : Char("0123456789", n + 1) = c

\* The integer a string of digits denotes ("" denotes 0).
DigitsVal(s) ==
    LET F[i \in 0..Len(s)] == IF i = 0 THEN 0 ELSE 10 * F[i - 1] + DigitVal(Char(s, i))
    IN  F[Len(s)]

\* Python's float(s) for a string of digits, '.' and '-' only (what the two
\* cleaning regexes leave): an optional leading '-', digits with at most one
\* '.', at least one digit.  Anything else is a ValueError.
FloatParses(s) ==
    LET body == IF StartsWith(s, "-") THEN SubSeq(s, 2, Len(s)) ELSE s
    IN  /\ CountChar(body, "-") = 0
        /\ CountChar(body, ".") <= 1
        /\ \E i \in 1..Len(body) : Char(body, i) \in Digits

FloatOf(s) ==
    LET neg  == StartsWith(s, "-")
        body == IF neg THEN SubSeq(s, 2, Len(s)) ELSE s
        dot  == IF CountChar(body, ".") = 0 THEN Len(body) + 1
                ELSE CHOOSE i \in 1..Len(body) : Char(body, i) = "."
        mant == DigitsVal(KeepChars(body, Digits))
        v    == Dec(mant, IF dot > Len(body) THEN 0 ELSE Len(body) - dot)
    IN  IF neg THEN Neg(v) ELSE v
\* CANONICAL_DESCRIPTIONS of src/app.py: lower-cased spelling -> canonical description.
CANONICAL_DESCRIPTIONS ==
    ("property, plant and equipment" :> "Property, plant and equipment")
    @@ ("pp&e" :> "Property, plant and equipment")
    @@ ("ppe" :> "Property, plant and equipment")
    @@ ("other financial assets" :> "Other financial assets")
    @@ ("trade and other receivables" :> "Trade and other receivables")
    @@ ("trade receivables" :> "Trade and other receivables")
    @@ ("cash and cash equivalents" :> "Cash and Cash Equivalents")
    @@ ("cash equivalents" :> "Cash and Cash Equivalents")
    @@ ("cash at bank" :> "Cash and Cash Equivalents")
    @@ ("total assets" :> "Total Assets")
    @@ ("total asset" :> "Total Assets")
    @@ ("reserves" :> "Reserves")
    @@ ("accumulated surplus" :> "Accumulated surplus")
    @@ ("accum surplus" :> "Accumulated surplus")
    @@ ("accumulated deficit" :> "Accumulated deficit")
    @@ ("accumulated funds" :> "Accumulated Funds")
    @@ ("total equity" :> "Total Equity")
    @@ ("total equ" :> "Total Equity")
    @@ ("deferred tax liability" :> "Deferred tax liability")
    @@ ("tax liability" :> "Deferred tax liability")
    @@ ("trade and other payables" :> "Trade and Other Payables")
    @@ ("trade payables" :> "Trade and Other Payables")
    @@ ("provisions" :> "Provisions")
    @@ ("bank overdraft" :> "Bank overdraft")
    @@ ("total liabilities" :> "Total Liabilities")
    @@ ("total liability" :> "Total Liabilities")
    @@ ("total equity and liabilities" :> "Total Equity and Liabilities")
    @@ ("total equity & liabilities" :> "Total Equity and Liabilities")
    @@ ("total equity and liab" :> "Total Equity and Liabilities")
    @@ ("revenue" :> "Revenue")
    @@ ("levies received" :> "Levies received")
    @@ ("fines" :> "Fines")
    @@ ("water recovered" :> "Water recovered")
    @@ ("ombudsman levy" :> "Ombudsman levy")
    @@ ("electricity recovered" :> "Electricity recovered")
    @@ ("garage levies" :> "Garage levies")
    @@ ("security levies" :> "Security levies")
    @@ ("other income" :> "Other income")
    @@ ("tower rental" :> "Tower rental")
    @@ ("insurance claims received" :> "Insurance claims received")
    @@ ("special levy" :> "Special levy")
    @@ ("interest received" :> "Interest received")
    @@ ("fair value adjustments" :> "Fair value adjustments")
    @@ ("operating expenses" :> "Operating expenses")
    @@ ("accounting fees" :> "Accounting fees")
    @@ ("bank charges" :> "Bank charges")
    @@ ("csos" :> "CSOS")
    @@ ("cleaning" :> "Cleaning")
    @@ ("depreciation, amortisation and impairments" :> "Depreciation, amortisation and impairments")
    @@ ("depreciation and amortisation" :> "Depreciation and amortisation")
    @@ ("electricity" :> "Electricity")
    @@ ("employee costs" :> "Employee costs")
    @@ ("garden services" :> "Garden services")
    @@ ("insurance" :> "Insurance")
    @@ ("management fees" :> "Management fees")
    @@ ("other expenses" :> "Other expenses")
    @@ ("petrol and oil" :> "Petrol and oil")
    @@ ("printing and stationery" :> "Printing and stationery")
    @@ ("protective clothing" :> "Protective clothing")
    @@ ("repairs and maintenance" :> "Repairs and maintenance")
    @@ ("security" :> "Security")
    @@ ("investment revenue" :> "Investment revenue")
    @@ ("surplus (deficit) for the year" :> "Surplus (deficit) for the year")
    @@ ("total comprehensive income (loss) for the year" :> "Total comprehensive income (loss) for the year")
    @@ ("cash on hand" :> "Cash on hand")
    @@ ("bank balances" :> "Bank balances")
    @@ ("bank balance" :> "Bank balances")
    @@ ("short-term deposits" :> "Short-term deposits")
    @@ ("short term deposits" :> "Short-term deposits")
    @@ ("amounts received in advance" :> "Amounts received in advance")
    @@ ("deposits received" :> "Deposits received")
    @@ ("legal proceedings" :> "Legal proceedings")
    @@ ("rental income" :> "Rental Income")
    @@ ("auditor's remuneration" :> "Auditor's remuneration")
    @@ ("fees" :> "Auditor's remuneration")
    @@ ("bad debts" :> "Bad debts")
    @@ ("consulting and professional fees" :> "Consulting and professional fees")
    @@ ("interest income" :> "Interest income")
    @@ ("csos levies" :> "CSOS levies")
    @@ ("garbage levies" :> "Garbage levies")
    @@ ("compensation commissioner" :> "Compensation commissioner")
    @@ ("employee costs - salaried staff" :> "Employee costs - salaried staff")
    @@ ("municipal charges" :> "Municipal charges")
    @@ ("electricity - recovered from members" :> "Electricity - recovered from members")
    @@ ("water-recovered from members" :> "Water - recovered from members")
    @@ ("maintenance" :> "Maintenance")
    @@ ("elevator maintenace" :> "Elevator maintenance")
    @@ ("total income" :> "Total Income")
    @@ ("total operating expenses" :> "Total Operating Expenses")
    @@ ("(deficit) surplus for the year" :> "(Deficit) surplus for the year")
    @@ ("surplus before taxation" :> "Surplus before taxation")
    @@ ("adjustments for" :> "Adjustments for")
    @@ ("movements in provisions" :> "Movements in provisions")
    @@ ("changes in working capital" :> "Changes in working capital")
    @@ ("net provisions" :> "Net provisions")
    @@ ("taxation" :> "Taxation")
    @@ ("non provision of tax" :> "Non provision of tax")
    @@ ("cash generated from (used in) operations" :> "Cash generated from (used in) operations")
    @@ ("basic" :> "Basic (Employee Cost)")
    @@ ("uif" :> "UIF (Employee Cost)")
    @@ ("absa" :> "Bank balances")

\* MASTER_STRUCTURE of src/app.py, in declaration order (Python dicts keep insertion order).
MASTER_STRUCTURE ==
    <<
      [category |-> "Assets", subcategories |-> <<
          [subcategory |-> "Non-Current Assets", items |->
              <<"Property, plant and equipment", "Other financial assets">>],
          [subcategory |-> "Current Assets", items |->
              <<"Trade and other receivables", "Cash and Cash Equivalents", 
                "Cash on hand", "Bank balances", "Short-term deposits">>],
          [subcategory |-> "N/A", items |->
              <<"Total Assets">>]
      >>],
      [category |-> "Equity", subcategories |-> <<
          [subcategory |-> "Equity", items |->
              <<"Reserves", "Accumulated surplus", "Accumulated deficit", 
                "Accumulated Funds">>],
          [subcategory |-> "N/A", items |->
              <<"Total Equity">>]
      >>],
      [category |-> "Liabilities", subcategories |-> <<
          [subcategory |-> "Non-Current Liabilities", items |->
              <<"Deferred tax liability">>],
          [subcategory |-> "Current Liabilities", items |->
              <<"Trade and Other Payables", "Provisions", 
                "Amounts received in advance", "Deposits received", "Bank overdraft", 
                "Legal proceedings">>],
          [subcategory |-> "N/A", items |->
              <<"Total Liabilities", "Total Equity and Liabilities">>]
      >>],
      [category |-> "Comprehensive Income", subcategories |-> <<
          [subcategory |-> "Revenue", items |->
              <<"Revenue", "Levies received", "Fines", "Water recovered", 
                "Ombudsman levy", "Electricity recovered", "Garage levies", 
                "Security levies", "Other income", "Tower rental", 
                "Insurance claims received", "Special levy", "Interest received", 
                "Fair value adjustments", "Investment revenue", "Rental Income", 
                "Interest income", "CSOS levies", "Garbage levies">>],
          [subcategory |-> "N/A", items |->
              <<"Total Income">>],
          [subcategory |-> "Operating Expenses", items |->
              <<"Operating expenses", "Accounting fees", "Auditor's remuneration", 
                "Bank charges", "CSOS", "Cleaning", 
                "Depreciation, amortisation and impairments", "Electricity", 
                "Employee costs", "Garden services", "Insurance", "Management fees", 
                "Other expenses", "Petrol and oil", "Printing and stationery", 
                "Protective clothing", "Repairs and maintenance", "Security", 
                "Bad debts", "Consulting and professional fees", 
                "Compensation commissioner", "Employee costs - salaried staff", 
                "Municipal charges", "Electricity - recovered from members", 
                "Water - recovered from members", "Maintenance", 
                "Elevator maintenance", "Basic (Employee Cost)", "UIF (Employee Cost)">>],
          [subcategory |-> "N/A_2", items |->
              <<"Total Operating Expenses">>]
      >>],
      [category |-> "Profit/Loss", subcategories |-> <<
          [subcategory |-> "N/A", items |->
              <<"Surplus (deficit) for the year", 
                "Total comprehensive income (loss) for the year", 
                "(Deficit) surplus for the year", "Surplus before taxation", 
                "Taxation", "Non provision of tax">>]
      >>],
      [category |-> "Cash Flow", subcategories |-> <<
          [subcategory |-> "Adjustments", items |->
              <<"Adjustments for", "Movements in provisions", 
                "Changes in working capital", "Net provisions">>],
          [subcategory |-> "N/A", items |->
              <<"Cash generated from (used in) operations">>]
      >>]
    >>

\* CANONICAL_DESCRIPTIONS of src/Backend/app.py.
Backend_CANONICAL_DESCRIPTIONS ==
    ("property, plant and equipment" :> "Property, plant and equipment")
    @@ ("pp&e" :> "Property, plant and equipment")
    @@ ("ppe" :> "Property, plant and equipment")
    @@ ("other financial assets" :> "Other financial assets")
    @@ ("trade and other receivables" :> "Trade and other receivables")
    @@ ("trade receivables" :> "Trade and other receivables")
    @@ ("cash and cash equivalents" :> "Cash and Cash Equivalents")
    @@ ("cash equivalents" :> "Cash and Cash Equivalents")
    @@ ("cash at bank" :> "Cash and Cash Equivalents")
    @@ ("total assets" :> "Total Assets")
    @@ ("total asset" :> "Total Assets")
    @@ ("reserves" :> "Reserves")
    @@ ("accumulated surplus" :> "Accumulated surplus")
    @@ ("accum surplus" :> "Accumulated surplus")
    @@ ("accumulated deficit" :> "Accumulated deficit")
    @@ ("accumulated funds" :> "Accumulated Funds")
    @@ ("total equity" :> "Total Equity")
    @@ ("total equ" :> "Total Equity")
    @@ ("deferred tax liability" :> "Deferred tax liability")
    @@ ("tax liability" :> "Deferred tax liability")
    @@ ("trade and other payables" :> "Trade and Other Payables")
    @@ ("trade payables" :> "Trade and Other Payables")
    @@ ("provisions" :> "Provisions")
    @@ ("bank overdraft" :> "Bank overdraft")
    @@ ("total liabilities" :> "Total Liabilities")
    @@ ("total liability" :> "Total Liabilities")
    @@ ("total equity and liabilities" :> "Total Equity and Liabilities")
    @@ ("total equity & liabilities" :> "Total Equity and Liabilities")
    @@ ("total equity and liab" :> "Total Equity and Liabilities")
    @@ ("revenue" :> "Revenue")
    @@ ("levies received" :> "Levies received")
    @@ ("fines" :> "Fines")
    @@ ("water recovered" :> "Water recovered")
    @@ ("ombudsman levy" :> "Ombudsman levy")
    @@ ("electricity recovered" :> "Electricity recovered")
    @@ ("garage levies" :> "Garage levies")
    @@ ("security levies" :> "Security levies")
    @@ ("other income" :> "Other income")
    @@ ("tower rental" :> "Tower rental")
    @@ ("insurance claims received" :> "Insurance claims received")
    @@ ("special levy" :> "Special levy")
    @@ ("interest received" :> "Interest received")
    @@ ("fair value adjustments" :> "Fair value adjustments")
    @@ ("operating expenses" :> "Operating expenses")
    @@ ("accounting fees" :> "Accounting fees")
    @@ ("bank charges" :> "Bank charges")
    @@ ("csos" :> "CSOS")
    @@ ("cleaning" :> "Cleaning")
    @@ ("depreciation, amortisation and impairments" :> "Depreciation, amortisation and impairments")
    @@ ("depreciation and amortisation" :> "Depreciation, amortisation and impairments")
    @@ ("electricity" :> "Electricity")
    @@ ("employee costs" :> "Employee costs")
    @@ ("garden services" :> "Garden services")
    @@ ("insurance" :> "Insurance")
    @@ ("management fees" :> "Management fees")
    @@ ("other expenses" :> "Other expenses")
    @@ ("petrol and oil" :> "Petrol and oil")
    @@ ("printing and stationery" :> "Printing and stationery")
    @@ ("protective clothing" :> "Protective clothing")
    @@ ("repairs and maintenance" :> "Repairs and maintenance")
    @@ ("security" :> "Security")
    @@ ("investment revenue" :> "Investment revenue")
    @@ ("surplus (deficit) for the year" :> "Surplus (deficit) for the year")
    @@ ("total comprehensive income (loss) for the year" :> "Total comprehensive income (loss) for the year")
    @@ ("cash on hand" :> "Cash on hand")
    @@ ("bank balances" :> "Bank balances")
    @@ ("bank balance" :> "Bank balances")
    @@ ("short-term deposits" :> "Short-term deposits")
    @@ ("short term deposits" :> "Short-term deposits")
    @@ ("amounts received in advance" :> "Amounts received in advance")
    @@ ("deposits received" :> "Deposits received")
    @@ ("legal proceedings" :> "Legal proceedings")
    @@ ("rental income" :> "Rental Income")
    @@ ("auditor's remuneration" :> "Auditor's remuneration")
    @@ ("fees" :> "Auditor's remuneration")
    @@ ("bad debts" :> "Bad debts")
    @@ ("consulting and professional fees" :> "Consulting and professional fees")
    @@ ("interest income" :> "Interest income")
    @@ ("csos levies" :> "CSOS levies")
    @@ ("garbage levies" :> "Garbage levies")
    @@ ("compensation commissioner" :> "Compensation commissioner")
    @@ ("employee costs - salaried staff" :> "Employee costs - salaried staff")
    @@ ("municipal charges" :> "Municipal charges")
    @@ ("electricity - recovered from members" :> "Electricity - recovered from members")
    @@ ("water-recovered from members" :> "Water - recovered from members")
    @@ ("maintenance" :> "Maintenance")
    @@ ("elevator maintenace" :> "Elevator maintenance")
    @@ ("total income" :> "Total Income")
    @@ ("total operating expenses" :> "Total Operating Expenses")
    @@ ("(deficit) surplus for the year" :> "(Deficit) surplus for the year")
    @@ ("surplus before taxation" :> "Surplus before taxation")
    @@ ("adjustments for" :> "Adjustments for")
    @@ ("movements in provisions" :> "Movements in provisions")
    @@ ("changes in working capital" :> "Changes in working capital")
    @@ ("net provisions" :> "Net provisions")
    @@ ("non provision of tax" :> "Non provision of tax")
    @@ ("taxation" :> "Taxation")
    @@ ("cash generated from (used in) operations" :> "Cash generated from (used in) operations")
    @@ ("basic" :> "Basic (Employee Cost)")
    @@ ("uif" :> "UIF (Employee Cost)")
    @@ ("absa" :> "Bank balances")

\* MASTER_STRUCTURE of src/Backend/app.py, in declaration order.
Backend_MASTER_STRUCTURE ==
    <<
      [category |-> "Assets", subcategories |-> <<
          [subcategory |-> "Non-Current Assets", items |->
              <<"Property, plant and equipment", "Other financial assets">>],
          [subcategory |-> "Current Assets", items |->
              <<"Trade and other receivables", "Cash and Cash Equivalents", 
                "Cash on hand", "Bank balances", "Short-term deposits", "ABSA">>],
          [subcategory |-> "N/A", items |->
              <<"Total Assets">>]
      >>],
      [category |-> "Equity", subcategories |-> <<
          [subcategory |-> "Equity", items |->
              <<"Reserves", "Accumulated surplus", "Accumulated deficit", 
                "Accumulated Funds">>],
          [subcategory |-> "N/A", items |->
              <<"Total Equity">>]
      >>],
      [category |-> "Liabilities", subcategories |-> <<
          [subcategory |-> "Non-Current Liabilities", items |->
              <<"Deferred tax liability">>],
          [subcategory |-> "Current Liabilities", items |->
              <<"Trade and Other Payables", "Provisions", 
                "Amounts received in advance", "Deposits received", "Bank overdraft", 
                "Legal proceedings">>],
          [subcategory |-> "N/A", items |->
              <<"Total Liabilities">>]
      >>],
      [category |-> "Revenue", subcategories |-> <<
          [subcategory |-> "Income", items |->
              <<"Revenue", "Levies received", "Fines", "Water recovered", 
                "Ombudsman levy", "Electricity recovered", "Garage levies", 
                "Security levies", "Other income", "Tower rental", 
                "Insurance claims received", "Special levy", "Interest received", 
                "Fair value adjustments", "Investment revenue", "Rental Income", 
                "Interest income", "CSOS levies", "Garbage levies">>],
          [subcategory |-> "N/A", items |->
              <<"Total Income">>]
      >>],
      [category |-> "Expenses", subcategories |-> <<
          [subcategory |-> "Operating Expenses", items |->
              <<"Operating expenses", "Accounting fees", "Bank charges", "CSOS", 
                "Cleaning", "Depreciation, amortisation and impairments", 
                "Electricity", "Employee costs", "Garden services", "Insurance", 
                "Management fees", "Other expenses", "Petrol and oil", 
                "Printing and stationery", "Protective clothing", 
                "Repairs and maintenance", "Security", "Auditor's remuneration", 
                "Bad debts", "Consulting and professional fees", 
                "Compensation commissioner", "Employee costs - salaried staff", 
                "Municipal charges", "Electricity - recovered from members", 
                "Water - recovered from members", "Maintenance", 
                "Elevator maintenance", "Basic (Employee Cost)", "UIF (Employee Cost)">>],
          [subcategory |-> "N/A", items |->
              <<"Total Operating Expenses">>]
      >>],
      [category |-> "Other Financial Items", subcategories |-> <<
          [subcategory |-> "N/A", items |->
              <<"Surplus (deficit) for the year", 
                "Total comprehensive income (loss) for the year", 
                "Surplus before taxation", "Adjustments for", 
                "Movements in provisions", "Changes in working capital", 
                "Net provisions", "Non provision of tax", "Taxation", 
                "Cash generated from (used in) operations", 
                "(Deficit) surplus for the year">>]
      >>]
    >>

\* category_keywords of infer_categories_and_structure, in declaration order.
category_keywords ==
    <<
      [category |-> "Assets", keywords |->
          <<"assets">>],
      [category |-> "Equity", keywords |->
          <<"equity", "reserves", "accumulated surplus", "accumulated deficit", 
            "accumulated funds">>],
      [category |-> "Liabilities", keywords |->
          <<"liabilities", "trade and other payables", "provisions", 
            "bank overdraft", "deferred tax liability">>],
      [category |-> "Revenue", keywords |->
          <<"revenue", "income", "levies received", "fines", "water recovered", 
            "ombudsman levy", "electricity recovered", "garage levies", 
            "security levies", "tower rental", "insurance claims received", 
            "special levy", "interest received", "fair value adjustments", 
            "investment revenue", "rental income", "interest income", 
            "csos levies", "garbage levies">>],
      [category |-> "Expenses", keywords |->
          <<"operating expenses", "accounting fees", "bank charges", "csos", 
            "cleaning", "depreciation", "amortisation", "impairments", 
            "electricity", "employee costs", "garden services", "insurance", 
            "management fees", "other expenses", "petrol and oil", 
            "printing and stationery", "protective clothing", 
            "repairs and maintenance", "security", "auditor's remuneration", 
            "bad debts", "consulting and professional fees", 
            "compensation commissioner", "employee costs - salaried staff", 
            "municipal charges", "electricity - recovered from members", 
            "water-recovered from members", "maintenance", "elevator maintenance">>],
      [category |-> "Other Financial Items", keywords |->
          <<"surplus (deficit) for the year", 
            "total comprehensive income (loss) for the year", 
            "surplus before taxation", "adjustments for", 
            "movements in provisions", "changes in working capital", 
            "net provisions", "non provision of tax", "taxation", 
            "cash generated from (used in) operations", "basic", "uif", 
            "deficit surplus for the year">>]
    >>

\* subcategory_keywords of infer_categories_and_structure, in declaration order.
subcategory_keywords ==
    <<
      [subcategory |-> "Non-Current Assets", keywords |->
          <<"non-current assets", "property, plant and equipment", 
            "other financial assets">>],
      [subcategory |-> "Current Assets", keywords |->
          <<"current assets", "trade and other receivables", 
            "cash and cash equivalents", "cash on hand", "bank balances", 
            "short-term deposits", "absa">>],
      [subcategory |-> "Equity", keywords |->
          <<"reserves", "accumulated surplus", "accumulated deficit", 
            "accumulated funds">>],
      [subcategory |-> "Non-Current Liabilities", keywords |->
          <<"non-current liabilities", "deferred tax liability">>],
      [subcategory |-> "Current Liabilities", keywords |->
          <<"current liabilities", "trade and other payables", "provisions", 
            "amounts received in advance", "deposits received", "bank overdraft", 
            "legal proceedings">>],
      [subcategory |-> "Income", keywords |->
          <<"revenue", "levies received", "fines", "water recovered", 
            "ombudsman levy", "electricity recovered", "garage levies", 
            "security levies", "other income", "tower rental", 
            "insurance claims received", "special levy", "interest received", 
            "fair value gains", "investment revenue", "rental income", 
            "interest income", "csos levies", "garbage levies">>],
      [subcategory |-> "Operating Expenses", keywords |->
          <<"operating expenses", "accounting fees", "bank charges", "csos", 
            "cleaning", "depreciation", "amortisation", "impairments", 
            "electricity", "employee costs", "garden services", "insurance", 
            "management fees", "other expenses", "petrol and oil", 
            "printing and stationery", "protective clothing", 
            "repairs and maintenance", "security", "auditor's remuneration", 
            "bad debts", "consulting and professional fees", 
            "compensation commissioner", "municipal charges", "maintenance", 
            "elevator maintenance", "basic", "uif">>],
      [subcategory |-> "N/A", keywords |->
          <<>>]
    >>

\* ------------------------------------------------------------ raw amounts
\* A value of AmountsByYear as json.loads gives it: a string, a number, null,
\* or something else (a list stands for every other type).
RawStr(s) == [t |-> "str", s |-> s, v |-> None]
RawNum(v) == [t |-> "num", s |-> "", v |-> v]
RawNull == [t |-> "null", s |-> "", v |-> None]
RawList == [t |-> "list", s |-> "[1, 2]", v |-> None]

RECURSIVE NatStr(_)
NatStr(n) ==
    IF n < 10 THEN Char("0123456789", n + 1)
    ELSE NatStr(n \div 10) \o Char("0123456789", (n % 10) + 1)

\* n written with exactly w digits (w > 0), zeros leading.
RECURSIVE PadStr(_, _)
PadStr(n, w) ==
    IF w = 1 THEN Char("0123456789", (n % 10) + 1)
    ELSE PadStr(n \div 10, w - 1) \o Char("0123456789", (n % 10) + 1)

\* Python's str(amount).  A number with no fraction is written as an int.
StrOf(amount) ==
    CASE amount.t = "str" -> amount.s
      [] amount.t = "num" ->
            LET a == Abs(amount.v)
                p == Pow10(a.e)
            IN  (IF IsNeg(amount.v) THEN "-" ELSE "")
                \o NatStr(a.m \div p)
                \o (IF a.e = 0 THEN "" ELSE "." \o PadStr(a.m % p, a.e))
      [] amount.t = "null" -> "None"
      [] OTHER -> amount.s

\* A clean_value that takes no notice of enclosing parentheses.
clean_value_unsigned(value) ==
    IF value.t = "num" THEN value.v
    ELSE IF value.t = "str" THEN
        LET digits == KeepChars(Strip(value.s), Digits \cup {"."})
        IN  IF digits # "" /\ FloatParses(digits) THEN FloatOf(digits) ELSE None
    ELSE None

\* A clean_value that reads a string float() rejects as the number its
\* digits spell.
clean_value_lenient(value) ==
    IF value.t = "num" THEN value.v
    ELSE IF value.t = "str" THEN
        LET stripped    == Strip(value.s)
            is_negative == StartsWith(stripped, "(") /\ EndsWith(stripped, ")")
            digits      == KeepChars(stripped, Digits \cup {"."})
            mag         == Num(DigitsVal(KeepChars(digits, Digits)))
        IN  IF digits # ""
            THEN IF FloatParses(digits)
                 THEN IF is_negative THEN Neg(FloatOf(digits)) ELSE FloatOf(digits)
                 ELSE IF is_negative THEN Neg(mag) ELSE mag
            ELSE None
    ELSE None

\* A clean_value that takes a leading minus sign for negative as well.
clean_value_minus_sign(value) ==
    IF value.t = "num" THEN value.v
    ELSE IF value.t = "str" THEN
        LET stripped    == Strip(value.s)
            is_negative == \/ StartsWith(stripped, "(") /\ EndsWith(stripped, ")")
                           \/ StartsWith(stripped, "-")
            digits      == KeepChars(stripped, Digits \cup {"."})
        IN  IF digits # ""
            THEN IF FloatParses(digits)
                 THEN IF is_negative THEN Neg(FloatOf(digits)) ELSE FloatOf(digits)
                 ELSE None
            ELSE None
    ELSE None

\* A clean_value that reads a decimal point with no digit as zero.
clean_value_point_as_zero(value) ==
    IF value.t = "num" THEN value.v
    ELSE IF value.t = "str" THEN
        LET stripped    == Strip(value.s)
            is_negative == StartsWith(stripped, "(") /\ EndsWith(stripped, ")")
            digits      == KeepChars(stripped, Digits \cup {"."})
        IN  IF digits # ""
            THEN IF FloatParses(digits)
                 THEN IF is_negative THEN Neg(FloatOf(digits)) ELSE FloatOf(digits)
                 ELSE IF digits = "." THEN Num(0) ELSE None
            ELSE None
    ELSE None

\* ------------------------------------------------------------ src/app.py
\* clean_value of src/app.py
clean_value(value) ==
    IF value.t = "num" THEN value.v
    ELSE IF value.t = "str" THEN
        LET stripped    == Strip(value.s)
            is_negative == StartsWith(stripped, "(") /\ EndsWith(stripped, ")")
            digits      == KeepChars(stripped, Digits \cup {"."})
        IN  IF digits # ""
            THEN IF FloatParses(digits)
                 THEN IF is_negative THEN Neg(FloatOf(digits)) ELSE FloatOf(digits)
                 ELSE None
            ELSE None
    ELSE None

\* A resolver that trims the description it returns, not the one it looks up.
get_canonical_name_trimming_late(name) ==
    LET key == Lower(name)
    IN  IF key \in DOMAIN CANONICAL_DESCRIPTIONS
        THEN CANONICAL_DESCRIPTIONS[key] ELSE Strip(name)

\* get_canonical_name of src/app.py (name is a string)
get_canonical_name(name) ==
    LET key == Strip(Lower(name))
    IN  IF key \in DOMAIN CANONICAL_DESCRIPTIONS
        THEN CANONICAL_DESCRIPTIONS[key] ELSE name

\* ----------------------------------------------------- src/Backend/app.py
\* The lookup at the head of the loop of infer_categories_and_structure:
\* normalized_desc and canonical_description of one description string.
normalized_desc(original_description) == Lower(normalize_text(original_description))

\* A lookup under the lower-cased, trimmed description, inner whitespace kept.
canonical_description_trimmed(original_description) ==
    LET key == Strip(Lower(original_description))
    IN  IF key \in DOMAIN Backend_CANONICAL_DESCRIPTIONS
        THEN Backend_CANONICAL_DESCRIPTIONS[key] ELSE original_description

canonical_description(original_description) ==
    LET key == normalized_desc(original_description)
    IN  IF key \in DOMAIN Backend_CANONICAL_DESCRIPTIONS
        THEN Backend_CANONICAL_DESCRIPTIONS[key] ELSE original_description

\* s with every '.' after the first one removed: parts[0] + '.' + ''.join(parts[1:])
OneDecimalPoint(s) ==
    LET first == CHOOSE i \in 1..Len(s) : Char(s, i) = "." /\ \A j \in 1..(i - 1) : Char(s, j) # "."
    IN  SubSeq(s, 1, first) \o KeepChars(SubSeq(s, first + 1, Len(s)), Digits \cup {"-"})

\* The amount cleaning inside the population loop of generate_excel, up to the
\* string handed to float().  (The replace of '\xa0' is subsumed by the regex,
\* which drops every character that is not a digit, '.' or '-'.)
clean_amount_str(amount) ==
    LET s1 == Strip(StrOf(amount))
        s2 == IF StartsWith(s1, "(") /\ EndsWith(s1, ")")
              THEN "-" \o SubSeq(s1, 2, Len(s1) - 1) ELSE s1
        s3 == KeepChars(s2, Digits \cup {".", "-"})
    IN  IF CountChar(s3, ".") > 1 THEN OneDecimalPoint(s3) ELSE s3

\* float(clean_amount_str) raises ValueError
clean_amount_raises(amount) ==
    clean_amount_str(amount) # "" /\ ~FloatParses(clean_amount_str(amount))

\* clean_amount = float(clean_amount_str) if clean_amount_str else None
clean_amount(amount) ==
    IF clean_amount_str(amount) = "" THEN None ELSE FloatOf(clean_amount_str(amount))

\* int(year_str): Python strips whitespace and takes an optional sign.
IntParses(year_str) ==
    LET s    == Strip(year_str)
        body == IF StartsWith(s, "-") \/ StartsWith(s, "+") THEN SubSeq(s, 2, Len(s)) ELSE s
    IN  body # "" /\ \A i \in 1..Len(body) : Char(body, i) \in Digits

IntOf(year_str) ==
    LET s    == Strip(year_str)
        body == IF StartsWith(s, "-") \/ StartsWith(s, "+") THEN SubSeq(s, 2, Len(s)) ELSE s
    IN  IF StartsWith(s, "-") THEN 0 - DigitsVal(body) ELSE DigitsVal(body)

\* ---------------------------------------------------------------- ordering
\* The ASCII characters the model's strings use, in code-point order: Python
\* compares strings by code point.
Ascii ==
    " $&'()+,-.0123456789ABCDEFGHIJKLMNOPQRSTUVWXYZabcdefghijklmnopqrstuvwxyz"

Ord(c) == CHOOSE i \in 1..Len(Ascii) : Char(Ascii, i) = c

\* a < b on Python strings
StrLess(a, b) ==
    \E i \in 1..(Len(b)) :
        /\ i <= Len(a) + 1
        /\ SubSeq(a, 1, i - 1) = SubSeq(b, 1, i - 1)
        /\ (i = Len(a) + 1 \/ Ord(Char(a, i)) < Ord(Char(b, i)))

\* sorted(list(S), reverse=True) for a set S of strings
RECURSIVE SortedDescStr(_)
SortedDescStr(S) ==
    IF S = {} THEN <<>>
    ELSE LET top == CHOOSE x \in S : \A y \in S \ {x} : StrLess(y, x)
         IN  <<top>> \o SortedDescStr(S \ {top})

\* sorted(list(S), reverse=True) for a set S of ints
RECURSIVE SortedDescInt(_)
SortedDescInt(S) ==
    IF S = {} THEN <<>>
    ELSE LET top == CHOOSE x \in S : \A y \in S : y <= x
         IN  <<top>> \o SortedDescInt(S \ {top})

\* ------------------------------------------------------------------ inputs
\* The "Description" of an item: a string, absent, or not a string (null).
DescStr(s) == [t |-> "str", s |-> s]
DescMissing == [t |-> "missing", s |-> ""]
DescNull == [t |-> "null", s |-> ""]

\* What a request's items are drawn from: descriptions, the shapes of
\* AmountsByYear (a dict, or null), year keys, amounts.
FoldDomain ==
    [descriptions |-> {DescStr("ABSA"), DescStr("Bank balances"), DescStr(" Widget "),
                       DescMissing, DescNull},
     shapes       |-> {"dict", "null"},
     years        |-> {"2020", "FY20"},
     amounts      |-> {RawStr("100"), RawStr("50"), RawStr("abc"), RawNum(Num(7))}]

ExclusivityDomain ==
    [descriptions |-> {DescStr("Accumulated surplus"), DescStr("Accumulated deficit")},
     shapes       |-> {"dict"},
     years        |-> {"2020", "2021"},
     amounts      |-> {RawStr("500"), RawStr("(500)"), RawStr("0")}]

BackendFoldDomain ==
    [descriptions |-> {DescStr("ABSA"), DescStr("Bank balances"), DescStr(" Widget "),
                       DescMissing, DescNull},
     shapes       |-> {"dict", "null"},
     years        |-> {"2020", "FY20"},
     amounts      |-> {RawStr("1 000"), RawStr("500"), RawStr("()"), RawStr("abc")}]

\* Descriptions of two subcategories of "Assets", descriptions no schema
\* lists, and totals the resolver produces.
ReportDomain ==
    [descriptions |-> {DescStr("PPE"), DescStr("Bank balances"), DescStr("Widget"),
                       DescStr("Apple"), DescStr("Total Equity and Liabilities"),
                       DescStr("Depreciation and amortisation")},
     shapes       |-> {"dict"},
     years        |-> {"2020"},
     amounts      |-> {RawStr("500"), RawStr("abc")}]

\* A description no schema lists and one that opens the "Liabilities" section
\* of a statement: the same unlisted line before and after a section heading
\* takes three items.
SectionDomain ==
    [descriptions |-> {DescStr("Widget"), DescStr("Provisions")},
     shapes       |-> {"dict"},
     years        |-> {"2020"},
     amounts      |-> {RawStr("500")}]

Domains == {FoldDomain, ExclusivityDomain, ReportDomain}

BackendDomains == {BackendFoldDomain, ExclusivityDomain, ReportDomain, SectionDomain}

\* Most items a request drawn from the domain holds.
MaxItemsOf(dom) == IF dom = SectionDomain THEN MaxItems + 1 ELSE MaxItems

\* dict.get(key, default)
Get(d, key, default) == IF key \in DOMAIN d THEN d[key] ELSE default

\* d with d[key] = value, the key added when new
Put(d, key, value) == [x \in DOMAIN d \cup {key} |-> IF x = key THEN value ELSE d[x]]

\* del d[key]
Del(d, key) == [x \in DOMAIN d \ {key} |-> d[x]]

EmptyDict == [x \in {} |-> None]

VARIABLES
    \* the pure functions under test
    fn, arg, ret,
    \* the request: the domain its items are drawn from, the (description,
    \* year, amount) pairs consumed so far as a bag, the "Description" strings
    \* of the items taken so far, the item in hand, the pair
    \* of it consumed last, and how many items and pairs were drawn
    domain, input_pairs, input_descriptions, item, last_pair, n_items, n_pairs,
    \* upload_and_convert_pdfs of src/app.py
    pc, all_years, seen_years, sorted_years,
    consolidated_items, canonical_name, item_years, year_index, rows,
    \* upload_pdfs and generate_excel of src/Backend/app.py
    be_pc, be_all_years, be_seen_years, be_sorted_years,
    consolidated_items_by_key, key_order, last_major_section, structured_item,
    target_key, year_int, be_item_years, be_year_index, be_rows,
    \* two requests in progress at once: what each call holds in its local
    \* variables, and the ledger each call has built
    requests, ledgers

pureVars == <<fn, arg, ret>>
inputVars == <<domain, input_pairs, input_descriptions, item, last_pair, n_items, n_pairs>>
rootVars == <<pc, all_years, seen_years, sorted_years,
              consolidated_items, canonical_name, item_years, year_index, rows>>
beVars == <<be_pc, be_all_years, be_seen_years, be_sorted_years,
            consolidated_items_by_key, key_order, last_major_section, structured_item,
            target_key, year_int, be_item_years, be_year_index, be_rows>>
requestVars == <<requests, ledgers>>
vars == <<pureVars, inputVars, rootVars, beVars, requestVars>>

NoItem == [Description |-> DescMissing]
NoPair == [year |-> "", amount |-> RawNull]

Unbound == [bound |-> FALSE, v |-> 0]
NoKey == <<"", "", "">>
NoStructuredItem == [Description |-> "", Category |-> "", SubCategory |-> ""]

\* The variables of a program that does not run keep these values.
PureIdle == fn = "" /\ arg = RawNull /\ ret = None

RootIdle ==
    /\ pc = "idle" /\ all_years = {} /\ seen_years = {} /\ sorted_years = <<>>
    /\ consolidated_items = EmptyDict /\ canonical_name = "" /\ item_years = {}
    /\ year_index = 0 /\ rows = <<>>

RequestsIdle == requests = <<>> /\ ledgers = <<>>

BackendIdle ==
    /\ be_pc = "idle" /\ be_all_years = {} /\ be_seen_years = {} /\ be_sorted_years = <<>>
    /\ consolidated_items_by_key = EmptyDict /\ key_order = <<>>
    /\ last_major_section = "" /\ structured_item = NoStructuredItem
    /\ target_key = NoKey /\ year_int = Unbound /\ be_item_years = {}
    /\ be_year_index = 0 /\ be_rows = <<>>

\* ------------------------------------------ src/app.py: the request handler
\* State on entry to "Data Consolidation and Cleaning": all_years is the set
\* the upload loop collected from every item's AmountsByYear keys; the items
\* themselves are drawn one at a time as the fold consumes them.
RootInit ==
    /\ domain \in Domains
    /\ input_pairs = EmptyBag
    /\ input_descriptions = {}
    /\ item = NoItem
    /\ last_pair = NoPair
    /\ n_items = 0
    /\ n_pairs = 0
    /\ pc = "fold"
    /\ all_years \in SUBSET domain.years
    /\ seen_years = {}
    /\ sorted_years = <<>>
    /\ consolidated_items = EmptyDict
    /\ canonical_name = ""
    /\ item_years = {}
    /\ year_index = 0
    /\ rows = <<>>
    /\ PureIdle
    /\ BackendIdle
    /\ RequestsIdle

\* for item in all_extracted_data: an item without 'Description' or without
\* 'AmountsByYear' is skipped (its year keys, if any, are in all_years).
SkipItem ==
    /\ pc = "fold" /\ n_items < MaxItems
    /\ \E d \in domain.descriptions : d.t = "missing" /\ item' = [Description |-> d]
    /\ \E keys \in SUBSET all_years : seen_years' = seen_years \cup keys
    /\ n_items' = n_items + 1
    /\ UNCHANGED <<pureVars, requestVars, beVars, domain, input_pairs, input_descriptions,
                   last_pair, n_pairs>>
    /\ UNCHANGED <<pc, all_years, sorted_years, consolidated_items, canonical_name,
                   item_years, year_index, rows>>

\* item['Description'].lower() on a value that is not a string: AttributeError,
\* which nothing catches.
DescriptionNotString ==
    /\ pc = "fold" /\ n_items < MaxItems
    /\ \E d \in domain.descriptions : d.t = "null" /\ item' = [Description |-> d]
    /\ pc' = "error"
    /\ n_items' = n_items + 1
    /\ UNCHANGED <<pureVars, requestVars, beVars, domain, input_pairs, input_descriptions,
                   last_pair, n_pairs>>
    /\ UNCHANGED <<all_years, seen_years, sorted_years, consolidated_items,
                   canonical_name, item_years, year_index, rows>>

\* consolidated_items after "if canonical_name not in consolidated_items"
WithKey(items, name) ==
    IF name \in DOMAIN items THEN items ELSE Put(items, name, EmptyDict)

\* item['AmountsByYear'].items() on a value that is not a dict: AttributeError,
\* after the item's key was added.
AmountsNotDict ==
    /\ pc = "fold" /\ n_items < MaxItems
    /\ "null" \in domain.shapes
    /\ \E d \in domain.descriptions :
          /\ d.t = "str"
          /\ item' = [Description |-> d]
          /\ input_descriptions' = input_descriptions \cup {d.s}
          /\ canonical_name' = get_canonical_name(d.s)
    /\ consolidated_items' = WithKey(consolidated_items, canonical_name')
    /\ pc' = "error"
    /\ n_items' = n_items + 1
    /\ UNCHANGED <<pureVars, requestVars, beVars, domain, input_pairs, last_pair, n_pairs>>
    /\ UNCHANGED <<all_years, seen_years, sorted_years, item_years, year_index, rows>>

\* canonical_name = get_canonical_name(item['Description']) and the new key
BeginItem ==
    /\ pc = "fold" /\ n_items < MaxItems
    /\ \E d \in domain.descriptions :
          /\ d.t = "str"
          /\ item' = [Description |-> d]
          /\ input_descriptions' = input_descriptions \cup {d.s}
          /\ canonical_name' = get_canonical_name(d.s)
    /\ consolidated_items' = WithKey(consolidated_items, canonical_name')
    /\ pc' = "item"
    /\ item_years' = {}
    /\ last_pair' = NoPair
    /\ n_items' = n_items + 1
    /\ UNCHANGED <<pureVars, requestVars, beVars, domain, input_pairs, n_pairs>>
    /\ UNCHANGED <<all_years, seen_years, sorted_years, year_index, rows>>

\* A fold that keeps the latest value of a slot in place of the sum.
FoldValueOverwriting(year_data, year, cleaned_val) == Put(year_data, year, cleaned_val)

\* A fold that keeps the first value of a slot and drops the later ones.
FoldValueKeepingFirst(year_data, year, cleaned_val) ==
    IF year \in DOMAIN year_data THEN year_data ELSE Put(year_data, year, cleaned_val)

\* consolidated_items[canonical_name][year] =
\*     consolidated_items[canonical_name].get(year, 0) + cleaned_val
FoldValue(year_data, year, cleaned_val) ==
    Put(year_data, year, Add(Get(year_data, year, Num(0)), cleaned_val))

\* One (year, value) of item['AmountsByYear'].items()
FoldPair ==
    /\ pc = "item" /\ n_pairs < MaxPairs
    /\ \E year \in all_years \ item_years, value \in domain.amounts :
          /\ consolidated_items' =
                IF clean_value(value) # None
                THEN [consolidated_items EXCEPT ![canonical_name] =
                         FoldValue(@, year, clean_value(value))]
                ELSE consolidated_items
          /\ item_years' = item_years \cup {year}
          /\ seen_years' = seen_years \cup {year}
          /\ last_pair' = [year |-> year, amount |-> value]
          /\ input_pairs' = input_pairs (+) SetToBag({<<item.Description.s, year, value>>})
    /\ n_pairs' = n_pairs + 1
    /\ UNCHANGED <<pureVars, requestVars, beVars, domain, input_descriptions, item, n_items>>
    /\ UNCHANGED <<pc, all_years, sorted_years, canonical_name, year_index, rows>>

\* The item's AmountsByYear is exhausted.
EndItem ==
    /\ pc = "item"
    /\ pc' = "fold"
    /\ UNCHANGED <<pureVars, requestVars, beVars, inputVars>>
    /\ UNCHANGED <<all_years, seen_years, sorted_years, consolidated_items,
                   canonical_name, item_years, year_index, rows>>

\* if not all_extracted_data: return 400
NoData ==
    /\ pc = "fold" /\ n_items = 0 /\ all_years = {}
    /\ pc' = "rejected"
    /\ UNCHANGED <<pureVars, requestVars, beVars, inputVars>>
    /\ UNCHANGED <<all_years, seen_years, sorted_years, consolidated_items,
                   canonical_name, item_years, year_index, rows>>

\* The fold is over.  sorted_years = sorted(list(all_years), reverse=True) is
\* computed ahead of the fold from all_years, which the fold does not change,
\* and is first read by the post-processing.
EndFold ==
    /\ pc = "fold" /\ n_items > 0 /\ seen_years = all_years
    /\ sorted_years' = SortedDescStr(all_years)
    /\ year_index' = 1
    /\ pc' = "post"
    /\ UNCHANGED <<pureVars, requestVars, beVars, inputVars>>
    /\ UNCHANGED <<all_years, seen_years, consolidated_items, canonical_name,
                   item_years, rows>>

\* A pass that only settles a positive surplus against a negative deficit.
PostProcessSignsOnly(items, year) ==
    LET surplus == Get(Get(items, "Accumulated surplus", EmptyDict), year, None)
        deficit == Get(Get(items, "Accumulated deficit", EmptyDict), year, None)
    IN  IF surplus # None /\ deficit # None /\ IsPos(surplus) /\ IsNeg(deficit)
        THEN [items EXCEPT !["Accumulated deficit"] = Del(@, year)]
        ELSE items

\* A pass that also moves a deficit standing alone into the surplus slot.
PostProcessMovingLoneDeficit(items, year) ==
    LET surplus == Get(Get(items, "Accumulated surplus", EmptyDict), year, None)
        deficit == Get(Get(items, "Accumulated deficit", EmptyDict), year, None)
    IN  IF deficit # None /\ ~(surplus # None /\ IsPos(surplus) /\ IsNeg(deficit))
        THEN [items EXCEPT !["Accumulated surplus"] = Put(@, year, deficit),
                           !["Accumulated deficit"] = Del(@, year)]
        ELSE IF surplus # None /\ deficit # None
        THEN [items EXCEPT !["Accumulated deficit"] = Del(@, year)]
        ELSE items

\* One iteration of "Post-processing for Accumulated Surplus/Deficit":
\* consolidated_items after the body has run for year.
PostProcessYear(items, year) ==
    LET surplus == Get(Get(items, "Accumulated surplus", EmptyDict), year, None)
        deficit == Get(Get(items, "Accumulated deficit", EmptyDict), year, None)
    IN  IF surplus # None /\ deficit # None
        THEN IF IsPos(surplus) /\ IsNeg(deficit)
             THEN [items EXCEPT !["Accumulated deficit"] = Del(@, year)]
             ELSE IF ~IsZero(deficit)
                  THEN [items EXCEPT !["Accumulated surplus"] = Put(@, year, deficit),
                                     !["Accumulated deficit"] = Del(@, year)]
                  ELSE items
        ELSE items

\* for year in sorted_years: one iteration
PostProcess ==
    /\ pc = "post" /\ year_index <= Len(sorted_years)
    /\ consolidated_items' = PostProcessYear(consolidated_items, sorted_years[year_index])
    /\ year_index' = year_index + 1
    /\ UNCHANGED <<pureVars, requestVars, beVars, inputVars>>
    /\ UNCHANGED <<pc, all_years, seen_years, sorted_years, canonical_name,
                   item_years, rows>>

\* The rows generate_excel_report writes, top to bottom, headers left out: a
\* row per MASTER_STRUCTURE item that is a key of all_items, its cells
\* item_data.get(str(year)) for the years of all_years in order.
RECURSIVE Flatten(_)
Flatten(seqs) == IF seqs = <<>> THEN <<>> ELSE Head(seqs) \o Flatten(Tail(seqs))

MasterItems(master) ==
    Flatten([c \in 1..Len(master) |->
        Flatten([s \in 1..Len(master[c].subcategories) |->
            master[c].subcategories[s].items])])

generate_excel_report(all_items, years) ==
    LET listed == MasterItems(MASTER_STRUCTURE)
        row(item_name) ==
            IF item_name \in DOMAIN all_items
            THEN << [description |-> item_name,
                     cells |-> [i \in 1..Len(years) |->
                                   Get(all_items[item_name], years[i], None)]] >>
            ELSE <<>>
    IN  Flatten([i \in 1..Len(listed) |-> row(listed[i])])

\* The post-processing loop is over: the workbook is generated and sent.
Report ==
    /\ pc = "post" /\ year_index > Len(sorted_years)
    /\ rows' = generate_excel_report(consolidated_items, sorted_years)
    /\ pc' = "done"
    /\ UNCHANGED <<pureVars, requestVars, beVars, inputVars>>
    /\ UNCHANGED <<all_years, seen_years, sorted_years, consolidated_items,
                   canonical_name, item_years, year_index>>

RootNext ==
    \/ SkipItem \/ DescriptionNotString \/ AmountsNotDict \/ BeginItem
    \/ FoldPair \/ EndItem \/ NoData \/ EndFold \/ PostProcess \/ Report


\* ------------------------------- src/Backend/app.py: category inference
\* any(keyword in normalized_desc for keyword in keywords)
AnyKeyword(keywords, nd) == \E i \in 1..Len(keywords) : Contains(nd, keywords[i])

\* The first loop of the body: the first category one of whose keywords
\* occurs in the description, "" when there is none.
MatchedCategory(nd) ==
    LET hits == {i \in 1..Len(category_keywords) : AnyKeyword(category_keywords[i].keywords, nd)}
    IN  IF hits = {} THEN ""
        ELSE category_keywords[CHOOSE i \in hits : \A j \in hits : i <= j].category

\* last_major_section after the item
NextMajorSection(nd, section) ==
    LET matched == MatchedCategory(nd)
    IN  IF matched # "" THEN matched ELSE section

\* inferred_category before the overrides for total lines
InferredCategory(nd, section) ==
    LET matched == MatchedCategory(nd)
        cat     == IF matched # "" THEN matched ELSE "Other Financial Items"
        last    == IF matched # "" THEN matched ELSE section
    IN  IF cat = "Other Financial Items" /\ last # "" THEN last ELSE cat

\* The second loop of the body, from subcategory i on, with inferred_subcategory
\* = sub so far: a matching subcategory of the inferred category ends the loop,
\* a fallback sets the subcategory and the loop goes on.
RECURSIVE SubcategoryLoop(_, _, _, _)
SubcategoryLoop(i, sub, nd, cat) ==
    IF i > Len(subcategory_keywords) THEN sub
    ELSE LET subcat == subcategory_keywords[i].subcategory
         IN  IF ~AnyKeyword(subcategory_keywords[i].keywords, nd)
             THEN SubcategoryLoop(i + 1, sub, nd, cat)
             ELSE IF \/ (subcat \in {"Non-Current Assets", "Current Assets"} /\ cat = "Assets")
                     \/ (subcat = "Equity" /\ cat = "Equity")
                     \/ (subcat \in {"Non-Current Liabilities", "Current Liabilities"}
                            /\ cat = "Liabilities")
                     \/ (subcat = "Income" /\ cat = "Revenue")
                     \/ (subcat = "Operating Expenses" /\ cat = "Expenses")
                  THEN subcat
                  ELSE IF cat = "Assets"
                          /\ (\/ Contains(nd, "receivables") \/ Contains(nd, "cash")
                              \/ Contains(nd, "bank") \/ Contains(nd, "deposits")
                              \/ Contains(nd, "absa"))
                  THEN SubcategoryLoop(i + 1, "Current Assets", nd, cat)
                  ELSE IF cat = "Liabilities"
                          /\ (\/ Contains(nd, "payables") \/ Contains(nd, "provisions")
                              \/ Contains(nd, "advance") \/ Contains(nd, "deposits received")
                              \/ Contains(nd, "legal"))
                  THEN SubcategoryLoop(i + 1, "Current Liabilities", nd, cat)
                  ELSE IF cat = "Equity"
                          /\ (\/ Contains(nd, "reserves") \/ Contains(nd, "surplus")
                              \/ Contains(nd, "deficit") \/ Contains(nd, "funds"))
                  THEN SubcategoryLoop(i + 1, "Equity", nd, cat)
                  ELSE IF cat = "Revenue"
                          /\ (\/ Contains(nd, "levies") \/ Contains(nd, "income")
                              \/ Contains(nd, "recovered") \/ Contains(nd, "fines")
                              \/ Contains(nd, "rental"))
                  THEN SubcategoryLoop(i + 1, "Income", nd, cat)
                  ELSE IF cat = "Expenses"
                          /\ (\/ Contains(nd, "fees") \/ Contains(nd, "charges")
                              \/ Contains(nd, "depreciation") \/ Contains(nd, "employee")
                              \/ Contains(nd, "maintenance") \/ Contains(nd, "security"))
                  THEN SubcategoryLoop(i + 1, "Operating Expenses", nd, cat)
                  ELSE SubcategoryLoop(i + 1, sub, nd, cat)

\* "Specific overrides for common total lines"
IsTotalLine(nd) ==
    \/ Contains(nd, "total assets") \/ Contains(nd, "total equity")
    \/ Contains(nd, "total liabilities") \/ Contains(nd, "total equity and liabilities")
    \/ Contains(nd, "total income") \/ Contains(nd, "total operating expenses")

TotalLineCategory(nd) ==
    IF Contains(nd, "total assets") THEN "Assets"
    ELSE IF Contains(nd, "total equity") THEN "Equity"
    ELSE IF Contains(nd, "total liabilities") THEN "Liabilities"
    ELSE IF Contains(nd, "total equity and liabilities") THEN "Other Financial Items"
    ELSE IF Contains(nd, "total income") THEN "Revenue"
    ELSE "Expenses"

\* One item of infer_categories_and_structure: the item as it is appended to
\* structured_items, for a description that is a string.
infer_categories_and_structure(original_description, section) ==
    LET nd  == normalized_desc(original_description)
        cat == InferredCategory(nd, section)
        sub == SubcategoryLoop(1, "N/A", nd, cat)
    IN  [Description |-> canonical_description(original_description),
         Category    |-> IF IsTotalLine(nd) THEN TotalLineCategory(nd) ELSE cat,
         SubCategory |-> Replace(Replace(IF IsTotalLine(nd) THEN "N/A" ELSE sub,
                                         " and other", ""), " and cash", "")]

\* The descriptions and sections the items of a request can bring together,
\* and the outcome of the loop body for each, worked out once.
DomainDescriptions ==
    {""} \cup {d.s : d \in UNION {dom.descriptions : dom \in Domains \cup BackendDomains}}

MajorSections == {""} \cup {category_keywords[i].category : i \in 1..Len(category_keywords)}

InferredItem ==
    [d \in DomainDescriptions, section \in MajorSections |->
        infer_categories_and_structure(d, section)] @@ <<>>

InferredSection ==
    [d \in DomainDescriptions, section \in MajorSections |->
        NextMajorSection(normalized_desc(d), section)] @@ <<>>

\* ------------------------------------ src/Backend/app.py: generate_excel
\* The (description, category, subcategory) keys of MASTER_STRUCTURE in
\* declaration order.
MasterKeys(master) ==
    Flatten([c \in 1..Len(master) |->
        Flatten([s \in 1..Len(master[c].subcategories) |->
            [d \in 1..Len(master[c].subcategories[s].items) |->
                <<master[c].subcategories[s].items[d], master[c].category,
                  master[c].subcategories[s].subcategory>>]])])

Range(seq) == {seq[i] : i \in 1..Len(seq)}

\* Year slots pre-set to the number zero.
ZeroForYears(years) == [y \in Range(years) |-> Num(0)]

\* {year: None for year in sorted_years}
NoneForYears(years) == [y \in Range(years) |-> None]

\* "Priority 1: Find by canonical description within MASTER_STRUCTURE": the
\* key of the first subcategory list that holds the description, NoKey if none.
BackendMasterKeys == MasterKeys(Backend_MASTER_STRUCTURE)

\* "description in master_descs" for some list of MASTER_STRUCTURE
InMaster(description) == \E i \in 1..Len(BackendMasterKeys) : BackendMasterKeys[i][1] = description

MasterKeyOf(description) ==
    IF ~InMaster(description) THEN NoKey
    ELSE BackendMasterKeys[CHOOSE i \in 1..Len(BackendMasterKeys) :
             /\ BackendMasterKeys[i][1] = description
             /\ \A j \in 1..(i - 1) : BackendMasterKeys[j][1] # description]

\* target_key of a structured item
TargetKey(it) ==
    IF InMaster(it.Description) THEN MasterKeyOf(it.Description)
    ELSE <<it.Description, it.Category, it.SubCategory>>

\* The years the first loop of generate_excel can collect from the domain.
IntYears(years) == {IntOf(y) : y \in {x \in years : IntParses(x)}}

\* State on entry to upload_pdfs's call of generate_excel, or to its check
\* of all_parsed_data: be_all_years is the set the first loop of
\* generate_excel collects from every item's AmountsByYear keys.
BackendInit ==
    /\ domain \in BackendDomains
    /\ input_pairs = EmptyBag
    /\ input_descriptions = {}
    /\ item = NoItem
    /\ last_pair = NoPair
    /\ n_items = 0
    /\ n_pairs = 0
    /\ be_pc = "upload"
    /\ be_all_years \in SUBSET IntYears(domain.years)
    /\ be_seen_years = {}
    /\ be_sorted_years = <<>>
    /\ consolidated_items_by_key = EmptyDict
    /\ key_order = <<>>
    /\ last_major_section = ""
    /\ structured_item = NoStructuredItem
    /\ target_key = NoKey
    /\ year_int = Unbound
    /\ be_item_years = {}
    /\ be_year_index = 0
    /\ be_rows = <<>>
    /\ PureIdle
    /\ RootIdle
    /\ RequestsIdle

\* upload_pdfs: if not all_parsed_data: return 400
NoParsedData ==
    /\ be_pc = "upload" /\ be_all_years = {}
    /\ be_pc' = "rejected"
    /\ UNCHANGED <<pureVars, requestVars, rootVars, inputVars>>
    /\ UNCHANGED <<be_all_years, be_seen_years, be_sorted_years, consolidated_items_by_key,
                   key_order, last_major_section, structured_item, target_key, year_int,
                   be_item_years, be_year_index, be_rows>>

\* A start of the population loop from an empty ledger, nothing seeded.
PreInitializeNothing ==
    /\ be_pc = "upload"
    /\ be_sorted_years' = SortedDescInt(be_all_years)
    /\ key_order' = <<>>
    /\ consolidated_items_by_key' = EmptyDict
    /\ be_pc' = "fold"
    /\ UNCHANGED <<pureVars, requestVars, rootVars, inputVars>>
    /\ UNCHANGED <<be_all_years, be_seen_years, last_major_section, structured_item,
                   target_key, year_int, be_item_years, be_year_index, be_rows>>

\* generate_excel up to the population loop: sorted_years, and every
\* MASTER_STRUCTURE key pre-initialized to None for every year.
PreInitialize ==
    /\ be_pc = "upload"
    /\ be_sorted_years' = SortedDescInt(be_all_years)
    /\ key_order' = BackendMasterKeys
    /\ consolidated_items_by_key' =
          [key \in Range(key_order') |-> NoneForYears(be_sorted_years')]
    /\ be_pc' = "fold"
    /\ UNCHANGED <<pureVars, requestVars, rootVars, inputVars>>
    /\ UNCHANGED <<be_all_years, be_seen_years, last_major_section, structured_item,
                   target_key, year_int, be_item_years, be_year_index, be_rows>>

\* An item without "Description" (item.get gives ""), which the population
\* loop passes over; its year keys, if any, are in all_years.
BackendSkipItem ==
    /\ be_pc = "fold" /\ n_items < MaxItemsOf(domain)
    /\ \E d \in domain.descriptions : d.t = "missing" /\ item' = [Description |-> d]
    /\ \E keys \in SUBSET be_all_years : be_seen_years' = be_seen_years \cup keys
    /\ structured_item' = InferredItem["", last_major_section]
    /\ n_items' = n_items + 1
    /\ UNCHANGED <<pureVars, requestVars, rootVars, domain, input_pairs, input_descriptions,
                   last_pair, n_pairs>>
    /\ UNCHANGED <<be_pc, be_all_years, be_sorted_years, consolidated_items_by_key,
                   key_order, last_major_section, target_key, year_int,
                   be_item_years, be_year_index, be_rows>>

\* normalize_text(original_description) on a value that is not a string:
\* re.sub raises TypeError, which nothing catches.  (generate_excel infers
\* every item ahead of the population loop, so the call fails before the
\* ledger is read by anything; the model infers each item as it takes it.)
BackendDescriptionNotString ==
    /\ be_pc = "fold" /\ n_items < MaxItemsOf(domain)
    /\ \E d \in domain.descriptions : d.t = "null" /\ item' = [Description |-> d]
    /\ be_pc' = "error"
    /\ n_items' = n_items + 1
    /\ UNCHANGED <<pureVars, requestVars, rootVars, domain, input_pairs, input_descriptions,
                   last_pair, n_pairs>>
    /\ UNCHANGED <<be_all_years, be_seen_years, be_sorted_years, consolidated_items_by_key,
                   key_order, last_major_section, structured_item, target_key, year_int,
                   be_item_years, be_year_index, be_rows>>

\* consolidated_items_by_key and the order of its keys after
\* "if target_key not in consolidated_items_by_key"
WithTargetKey(items, key, years) ==
    IF key \in DOMAIN items THEN items ELSE Put(items, key, NoneForYears(years))

WithTargetKeyOrder(order, items, key) ==
    IF key \in DOMAIN items THEN order ELSE Append(order, key)

\* The item is inferred and its target_key found or added.
BackendTakeItem(d) ==
    /\ item' = [Description |-> d]
    /\ input_descriptions' = input_descriptions \cup {d.s}
    /\ structured_item' = InferredItem[d.s, last_major_section]
    /\ last_major_section' = InferredSection[d.s, last_major_section]
    /\ target_key' = TargetKey(structured_item')
    /\ consolidated_items_by_key' =
          WithTargetKey(consolidated_items_by_key, target_key', be_sorted_years)
    /\ key_order' = WithTargetKeyOrder(key_order, consolidated_items_by_key, target_key')
    /\ n_items' = n_items + 1

\* for filename, items in all_parsed_data.items(): the items of the next file
\* follow, and infer_categories_and_structure starts over with
\* last_major_section = None.
BackendNextFile ==
    /\ be_pc = "fold" /\ last_major_section # ""
    /\ last_major_section' = ""
    /\ UNCHANGED <<pureVars, requestVars, rootVars, inputVars>>
    /\ UNCHANGED <<be_pc, be_all_years, be_seen_years, be_sorted_years,
                   consolidated_items_by_key, key_order, structured_item, target_key,
                   year_int, be_item_years, be_year_index, be_rows>>

\* amounts_by_year.items() on a value that is not a dict: AttributeError.
BackendAmountsNotDict ==
    /\ be_pc = "fold" /\ n_items < MaxItemsOf(domain)
    /\ "null" \in domain.shapes
    /\ \E d \in domain.descriptions : d.t = "str" /\ d.s # "" /\ BackendTakeItem(d)
    /\ be_pc' = "error"
    /\ UNCHANGED <<pureVars, requestVars, rootVars, domain, input_pairs, last_pair, n_pairs>>
    /\ UNCHANGED <<be_all_years, be_seen_years, be_sorted_years, year_int,
                   be_item_years, be_year_index, be_rows>>

\* for item in items: an item with a description and a dict of amounts
BackendBeginItem ==
    /\ be_pc = "fold" /\ n_items < MaxItemsOf(domain)
    /\ \E d \in domain.descriptions : d.t = "str" /\ d.s # "" /\ BackendTakeItem(d)
    /\ be_pc' = "item"
    /\ be_item_years' = {}
    /\ last_pair' = NoPair
    /\ UNCHANGED <<pureVars, requestVars, rootVars, domain, input_pairs, n_pairs>>
    /\ UNCHANGED <<be_all_years, be_seen_years, be_sorted_years, year_int,
                   be_year_index, be_rows>>

\* consolidated_items_by_key[key][year] = value
SetSlot(items, key, year, value) == [items EXCEPT ![key] = Put(@, year, value)]

\* A population that adds a parsed amount to the value the slot holds.
PopulatePairAdding(items, key, yint, year_str, amount) ==
    IF ~IntParses(year_str)
    THEN SetSlot(items, key, yint.v, None)
    ELSE IF clean_amount_raises(amount)
         THEN SetSlot(items, key, IntOf(year_str), None)
         ELSE IF clean_amount(amount) # None
              THEN SetSlot(items, key, IntOf(year_str),
                           IF items[key][IntOf(year_str)] = None THEN clean_amount(amount)
                           ELSE Add(items[key][IntOf(year_str)], clean_amount(amount)))
              ELSE items

\* One (year_str, amount) of amounts_by_year.items(): the try block, and the
\* except block, which writes None at year_int as it then is.
PopulatePair(items, key, yint, year_str, amount) ==
    IF ~IntParses(year_str)
    THEN SetSlot(items, key, yint.v, None)
    ELSE IF clean_amount_raises(amount)
         THEN SetSlot(items, key, IntOf(year_str), None)
         ELSE IF clean_amount(amount) # None
              THEN SetSlot(items, key, IntOf(year_str), clean_amount(amount))
              ELSE items

BackendFoldPair ==
    /\ be_pc = "item" /\ n_pairs < MaxPairs
    /\ \E year_str \in domain.years \ be_item_years, amount \in domain.amounts :
          /\ IntParses(year_str) => IntOf(year_str) \in be_all_years
          /\ IF ~IntParses(year_str) /\ ~year_int.bound
             THEN \* the except block reads year_int before any assignment:
                  \* UnboundLocalError, which nothing catches
                  /\ be_pc' = "error"
                  /\ UNCHANGED <<consolidated_items_by_key, year_int, be_seen_years>>
             ELSE /\ consolidated_items_by_key' =
                        PopulatePair(consolidated_items_by_key, target_key, year_int,
                                     year_str, amount)
                  /\ year_int' = IF IntParses(year_str)
                                 THEN [bound |-> TRUE, v |-> IntOf(year_str)]
                                 ELSE year_int
                  /\ be_seen_years' = IF IntParses(year_str)
                                      THEN be_seen_years \cup {IntOf(year_str)}
                                      ELSE be_seen_years
                  /\ be_pc' = be_pc
          /\ be_item_years' = be_item_years \cup {year_str}
          /\ last_pair' = [year |-> year_str, amount |-> amount]
          /\ input_pairs' = input_pairs (+) SetToBag({<<item.Description.s, year_str, amount>>})
    /\ n_pairs' = n_pairs + 1
    /\ UNCHANGED <<pureVars, requestVars, rootVars, domain, input_descriptions, item, n_items>>
    /\ UNCHANGED <<be_all_years, be_sorted_years, key_order, last_major_section,
                   structured_item, target_key, be_year_index, be_rows>>

\* The item's amounts are exhausted.
BackendEndItem ==
    /\ be_pc = "item"
    /\ be_pc' = "fold"
    /\ UNCHANGED <<pureVars, requestVars, rootVars, inputVars>>
    /\ UNCHANGED <<be_all_years, be_seen_years, be_sorted_years, consolidated_items_by_key,
                   key_order, last_major_section, structured_item, target_key, year_int,
                   be_item_years, be_year_index, be_rows>>

\* The population loop is over.
BackendEndFold ==
    /\ be_pc = "fold" /\ be_seen_years = be_all_years
    /\ be_year_index' = 1
    /\ be_pc' = "post"
    /\ UNCHANGED <<pureVars, requestVars, rootVars, inputVars>>
    /\ UNCHANGED <<be_all_years, be_seen_years, be_sorted_years, consolidated_items_by_key,
                   key_order, last_major_section, structured_item, target_key, year_int,
                   be_item_years, be_rows>>

\* --------------- src/Backend/app.py: the surplus/deficit pass and the sheet
\* surplus_key and deficit_key of the pass
surplus_key == <<"Accumulated surplus", "Equity", "Equity">>
deficit_key == <<"Accumulated deficit", "Equity", "Equity">>

\* "Find the actual keys used in consolidated_items_by_key for surplus/deficit":
\* the scan of the keys in insertion order, from key i on.
RECURSIVE FindActualKeys(_, _, _, _)
FindActualKeys(order, i, actual_surplus_key, actual_deficit_key) ==
    IF i > Len(order) \/ (actual_surplus_key # NoKey /\ actual_deficit_key # NoKey)
    THEN [surplus |-> actual_surplus_key, deficit |-> actual_deficit_key]
    ELSE IF order[i][1] = "Accumulated surplus"
         THEN FindActualKeys(order, i + 1, order[i], actual_deficit_key)
         ELSE IF order[i][1] = "Accumulated deficit"
              THEN FindActualKeys(order, i + 1, actual_surplus_key, order[i])
              ELSE FindActualKeys(order, i + 1, actual_surplus_key, actual_deficit_key)

\* consolidated_items_by_key[key][year] = value, "if key:"
SetIfKey(items, key, year, value) ==
    IF key # NoKey THEN SetSlot(items, key, year, value) ELSE items

\* A pass that keeps the surplus whenever both slots hold a value.
SurplusAlwaysWins(items, order, year) ==
    LET actual == FindActualKeys(order, 1, NoKey, NoKey)
    IN  IF /\ actual.surplus # NoKey /\ actual.deficit # NoKey
           /\ items[actual.surplus][year] # None /\ items[actual.deficit][year] # None
        THEN SetSlot(items, actual.deficit, year, None)
        ELSE items

\* A pass that moves a lone negative value to the other slot with its sign.
ConvertKeepingSign(items, order, year) ==
    LET actual == FindActualKeys(order, 1, NoKey, NoKey)
        sk == actual.surplus
        dk == actual.deficit
        surplus_value == IF sk # NoKey /\ year \in DOMAIN items[sk] THEN items[sk][year] ELSE None
        deficit_value == IF dk # NoKey /\ year \in DOMAIN items[dk] THEN items[dk][year] ELSE None
    IN  IF surplus_value = None /\ deficit_value # None /\ IsNeg(deficit_value)
        THEN SetIfKey(SetIfKey(items, sk, year, deficit_value), dk, year, None)
        ELSE IF deficit_value = None /\ surplus_value # None /\ IsNeg(surplus_value)
        THEN SetIfKey(SetIfKey(items, dk, year, surplus_value), sk, year, None)
        ELSE IF surplus_value # None /\ deficit_value # None /\ IsPos(surplus_value)
        THEN SetIfKey(items, dk, year, None)
        ELSE IF surplus_value # None /\ deficit_value # None /\ IsPos(deficit_value)
        THEN SetIfKey(items, sk, year, None)
        ELSE items

\* A pass that keeps the deficit when both values have the same sign.
TiesKeepDeficit(items, order, year) ==
    LET actual == FindActualKeys(order, 1, NoKey, NoKey)
        sk == actual.surplus
        dk == actual.deficit
        surplus_value == IF sk # NoKey /\ year \in DOMAIN items[sk] THEN items[sk][year] ELSE None
        deficit_value == IF dk # NoKey /\ year \in DOMAIN items[dk] THEN items[dk][year] ELSE None
    IN  IF surplus_value # None /\ deficit_value # None
        THEN IF IsPos(surplus_value) /\ ~IsPos(deficit_value)
             THEN SetIfKey(items, dk, year, None)
             ELSE IF IsZero(surplus_value) /\ IsZero(deficit_value)
             THEN items
             ELSE SetIfKey(items, sk, year, None)
        ELSE IF surplus_value = None /\ deficit_value # None /\ IsNeg(deficit_value)
        THEN SetIfKey(SetIfKey(items, sk, year, Abs(deficit_value)), dk, year, None)
        ELSE IF deficit_value = None /\ surplus_value # None /\ IsNeg(surplus_value)
        THEN SetIfKey(SetIfKey(items, dk, year, Abs(surplus_value)), sk, year, None)
        ELSE items

\* One iteration of the pass: consolidated_items_by_key after the body has
\* run for year.
BackendPostProcessYear(items, order, year) ==
    LET actual == FindActualKeys(order, 1, NoKey, NoKey)
        sk == actual.surplus
        dk == actual.deficit
        surplus_value == IF sk # NoKey /\ year \in DOMAIN items[sk] THEN items[sk][year] ELSE None
        deficit_value == IF dk # NoKey /\ year \in DOMAIN items[dk] THEN items[dk][year] ELSE None
    IN  IF surplus_value # None /\ deficit_value # None
        THEN IF IsPos(surplus_value) /\ ~IsPos(deficit_value)
             THEN SetIfKey(items, dk, year, None)
             ELSE IF IsPos(deficit_value) /\ ~IsPos(surplus_value)
             THEN SetIfKey(items, sk, year, None)
             ELSE IF IsNeg(surplus_value) /\ ~IsNeg(deficit_value)
             THEN SetIfKey(items, sk, year, None)
             ELSE IF IsNeg(deficit_value) /\ ~IsNeg(surplus_value)
             THEN SetIfKey(items, dk, year, None)
             ELSE IF ~IsZero(surplus_value)
             THEN SetIfKey(items, dk, year, None)
             ELSE IF ~IsZero(deficit_value)
             THEN SetIfKey(items, sk, year, None)
             ELSE items
        ELSE IF surplus_value = None /\ deficit_value # None /\ IsNeg(deficit_value)
        THEN SetIfKey(SetIfKey(items, sk, year, Abs(deficit_value)), dk, year, None)
        ELSE IF deficit_value = None /\ surplus_value # None /\ IsNeg(surplus_value)
        THEN SetIfKey(SetIfKey(items, dk, year, Abs(surplus_value)), sk, year, None)
        ELSE items

\* for year in sorted_years: one iteration
BackendPostProcess ==
    /\ be_pc = "post" /\ be_year_index <= Len(be_sorted_years)
    /\ consolidated_items_by_key' =
          BackendPostProcessYear(consolidated_items_by_key, key_order,
                                 be_sorted_years[be_year_index])
    /\ be_year_index' = be_year_index + 1
    /\ UNCHANGED <<pureVars, requestVars, rootVars, inputVars>>
    /\ UNCHANGED <<be_pc, be_all_years, be_seen_years, be_sorted_years, key_order,
                   last_major_section, structured_item, target_key, year_int,
                   be_item_years, be_rows>>

category_display_order ==
    <<"Assets", "Equity", "Liabilities", "Revenue", "Expenses", "Other Financial Items">>

\* sorted(subcategories_dict.keys(), key=lambda x: (0 if x != "N/A" else 1, x)),
\* as the positions of the subcategories in the category
SubcategoryLess(a, b) ==
    IF (a = "N/A") # (b = "N/A") THEN b = "N/A" ELSE StrLess(a, b)

\* The subcategories as MASTER_STRUCTURE declares them, unsorted.
DeclaredSubcategories(subs, idx) == [i \in 1..Len(subs) |-> i]

RECURSIVE SortedSubcategories(_, _)
SortedSubcategories(subs, idx) ==
    IF idx = {} THEN <<>>
    ELSE LET first == CHOOSE a \in idx : \A b \in idx \ {a} :
                          SubcategoryLess(subs[a].subcategory, subs[b].subcategory)
         IN  <<first>> \o SortedSubcategories(subs, idx \ {first})

\* A test that takes any entry with year columns for data.
HasYears(year_data) == DOMAIN year_data # {}

\* year_data and any(v is not None for v in year_data.values())
HasData(year_data) == \E y \in DOMAIN year_data : year_data[y] # None

\* row_values of one key: the description, then year_data.get(year) for the
\* years of sorted_years
RowValues(items, key, years) ==
    [description |-> key[1],
     cells       |-> [i \in 1..Len(years) |-> Get(items[key], years[i], None)]]

\* The data rows written under one category of MASTER_STRUCTURE
CategoryRows(items, years, c) ==
    LET subs  == Backend_MASTER_STRUCTURE[c].subcategories
        order == SortedSubcategories(subs, 1..Len(subs))
        row(name, d) ==
            LET lookup_key == <<d, Backend_MASTER_STRUCTURE[c].category, name>>
            IN  IF lookup_key \in DOMAIN items /\ HasData(items[lookup_key])
                THEN << RowValues(items, lookup_key, years) >> ELSE <<>>
    IN  Flatten([n \in 1..Len(order) |->
            Flatten([d \in 1..Len(subs[order[n]].items) |->
                row(subs[order[n]].subcategory, subs[order[n]].items[d])])])

\* description.lower() of the totals left out of the additional items
ExcludedTotals ==
    {"total assets", "total equity", "total liabilities", "total equity and liabilities",
     "total income", "total operating expenses"}

\* unmapped_items_for_display, as the set of its keys
UnmappedKeys(items) ==
    {key \in DOMAIN items : ~InMaster(key[1]) /\ Lower(key[1]) \notin ExcludedTotals}

\* The additional items left in the order the ledger holds them.
UnsortedUnmapped(order, keys) == SelectSeq(order, LAMBDA key : key \in keys)

\* unmapped_items_for_display.sort(key=lambda x: x[0]): a stable sort of the
\* keys in insertion order
RECURSIVE SortedUnmapped(_, _)
SortedUnmapped(order, keys) ==
    LET idx == {i \in 1..Len(order) : order[i] \in keys}
    IN  IF idx = {} THEN <<>>
        ELSE LET first == CHOOSE i \in idx : \A j \in idx \ {i} :
                              \/ StrLess(order[i][1], order[j][1])
                              \/ (order[i][1] = order[j][1] /\ i < j)
             IN  <<order[first]>> \o SortedUnmapped(order, keys \ {order[first]})

\* The data rows of the sheet, top to bottom, headers and spacers left out.
generate_excel(items, order, years) ==
    LET cats == [i \in 1..Len(category_display_order) |->
                    {c \in 1..Len(Backend_MASTER_STRUCTURE) :
                        Backend_MASTER_STRUCTURE[c].category = category_display_order[i]}]
        mapped == Flatten([i \in 1..Len(cats) |->
                     IF cats[i] = {} THEN <<>>
                     ELSE CategoryRows(items, years, CHOOSE c \in cats[i] : TRUE)])
        unmapped == SortedUnmapped(order, UnmappedKeys(items))
    IN  mapped \o Flatten([i \in 1..Len(unmapped) |->
                     IF HasData(items[unmapped[i]])
                     THEN << RowValues(items, unmapped[i], years) >> ELSE <<>>])

\* The pass is over: the sheet is written and the workbook sent.
BackendReport ==
    /\ be_pc = "post" /\ be_year_index > Len(be_sorted_years)
    /\ be_rows' = generate_excel(consolidated_items_by_key, key_order, be_sorted_years)
    /\ be_pc' = "done"
    /\ UNCHANGED <<pureVars, requestVars, rootVars, inputVars>>
    /\ UNCHANGED <<be_all_years, be_seen_years, be_sorted_years, consolidated_items_by_key,
                   key_order, last_major_section, structured_item, target_key, year_int,
                   be_item_years, be_year_index>>

BackendNext ==
    \/ NoParsedData \/ PreInitialize \/ BackendSkipItem \/ BackendDescriptionNotString
    \/ BackendNextFile \/ BackendAmountsNotDict \/ BackendBeginItem \/ BackendFoldPair \/ BackendEndItem
    \/ BackendEndFold \/ BackendPostProcess \/ BackendReport

\* ------------------------------------------ two requests in progress at once
\* The items a request can bring: the "Description" and the pairs of
\* "AmountsByYear" in order (the years of these items are all numeric).
RequestItems ==
    {[Description |-> "ABSA", AmountsByYear |-> << <<"2020", RawStr("100")>> >>],
     [Description |-> "Accumulated deficit",
      AmountsByYear |-> << <<"2021", RawStr("(500)")>> >>]}

RequestInputs == UNION {[1..n -> RequestItems] : n \in 0..MaxItems}

\* The local variables of a call on entry: the program, the items extracted
\* for it, and the loop positions.
NewRequest(program, items) ==
    [program |-> program, items |-> items, pc |-> "start", i |-> 1, years |-> <<>>,
     y |-> 1, order |-> <<>>, section |-> "", rows |-> <<>>]

\* The year keys of the items of a request
YearKeys(items) ==
    UNION {{items[i].AmountsByYear[k][1] : k \in DOMAIN items[i].AmountsByYear} :
              i \in DOMAIN items}

\* for year, value in item['AmountsByYear'].items() of src/app.py, from pair k
RECURSIVE FoldItemPairs(_, _, _, _)
FoldItemPairs(ledger, name, pairs, k) ==
    IF k > Len(pairs) THEN ledger
    ELSE LET cleaned_val == clean_value(pairs[k][2])
         IN  FoldItemPairs(IF cleaned_val # None
                           THEN [ledger EXCEPT ![name] = FoldValue(@, pairs[k][1], cleaned_val)]
                           ELSE ledger,
                           name, pairs, k + 1)

\* for year_str, amount in amounts_by_year.items() of src/Backend/app.py
RECURSIVE PopulateItemPairs(_, _, _, _)
PopulateItemPairs(ledger, key, pairs, k) ==
    IF k > Len(pairs) THEN ledger
    ELSE PopulateItemPairs(PopulatePair(ledger, key, Unbound, pairs[k][1], pairs[k][2]),
                           key, pairs, k + 1)

\* One ledger kept at module level and used by every call.
SharedLedger(id) == 1

\* The ledger a call works on: consolidated_items (consolidated_items_by_key)
\* is a local variable, bound to a new dict by every call.
Ledger(id) == id

\* One step of a call on its local variables and its ledger: the entry up to
\* the new ledger, one item of the consolidation loop, one year of the
\* surplus/deficit pass, or the report.
RequestStep(r, ledger) ==
    IF r.pc = "start"
    THEN IF r.program = "root"
         THEN IF r.items = <<>>
              THEN [request |-> [r EXCEPT !.pc = "rejected"], ledger |-> ledger]
              ELSE [request |-> [r EXCEPT !.pc = "fold",
                                          !.years = SortedDescStr(YearKeys(r.items))],
                    ledger  |-> EmptyDict]
         ELSE LET years == SortedDescInt(IntYears(YearKeys(r.items)))
              IN  [request |-> [r EXCEPT !.pc = "fold", !.years = years,
                                         !.order = BackendMasterKeys],
                   ledger  |-> [key \in Range(BackendMasterKeys) |-> NoneForYears(years)]]
    ELSE IF r.pc = "fold" /\ r.i > Len(r.items)
    THEN [request |-> [r EXCEPT !.pc = "post"], ledger |-> ledger]
    ELSE IF r.pc = "fold"
    THEN LET item_i == r.items[r.i]
         IN  IF r.program = "root"
             THEN LET name == get_canonical_name(item_i.Description)
                  IN  [request |-> [r EXCEPT !.i = r.i + 1],
                       ledger  |-> FoldItemPairs(WithKey(ledger, name), name,
                                                 item_i.AmountsByYear, 1)]
             ELSE LET key == TargetKey(InferredItem[item_i.Description, r.section])
                  IN  [request |-> [r EXCEPT !.i = r.i + 1,
                                             !.section = InferredSection[item_i.Description,
                                                                         r.section],
                                             !.order = WithTargetKeyOrder(r.order, ledger, key)],
                       ledger  |-> PopulateItemPairs(WithTargetKey(ledger, key, r.years), key,
                                                     item_i.AmountsByYear, 1)]
    ELSE IF r.y <= Len(r.years)
    THEN [request |-> [r EXCEPT !.y = r.y + 1],
          ledger  |-> IF r.program = "root"
                      THEN PostProcessYear(ledger, r.years[r.y])
                      ELSE BackendPostProcessYear(ledger, r.order, r.years[r.y])]
    ELSE [request |-> [r EXCEPT !.pc = "done",
                                !.rows = IF r.program = "root"
                                         THEN generate_excel_report(ledger, r.years)
                                         ELSE generate_excel(ledger, r.order, r.years)],
          ledger  |-> ledger]

\* Two calls of one of the programs have been entered, each with its own
\* items.
RequestsInit ==
    /\ \E program \in {"root", "backend"} :
          requests \in [1..2 -> {NewRequest(program, items) : items \in RequestInputs}]
    /\ ledgers = [id \in 1..2 |-> EmptyDict]
    /\ domain = FoldDomain
    /\ input_pairs = EmptyBag /\ input_descriptions = {}
    /\ item = NoItem /\ last_pair = NoPair
    /\ n_items = 0 /\ n_pairs = 0
    /\ PureIdle
    /\ RootIdle
    /\ BackendIdle

\* Call id takes its next step.
RequestAdvance(id) ==
    LET next == RequestStep(requests[id], ledgers[Ledger(id)])
    IN  /\ requests' = [requests EXCEPT ![id] = next.request]
        /\ ledgers' = [ledgers EXCEPT ![Ledger(id)] = next.ledger]
        /\ UNCHANGED <<pureVars, inputVars, rootVars, beVars>>

StartRequest == \E id \in 1..2 : requests[id].pc = "start" /\ RequestAdvance(id)

RequestItem == \E id \in 1..2 : requests[id].pc = "fold" /\ RequestAdvance(id)

RequestPass ==
    \E id \in 1..2 :
        /\ requests[id].pc = "post" /\ requests[id].y <= Len(requests[id].years)
        /\ RequestAdvance(id)

RequestReport ==
    \E id \in 1..2 :
        /\ requests[id].pc = "post" /\ requests[id].y > Len(requests[id].years)
        /\ RequestAdvance(id)

RequestsNext == StartRequest \/ RequestItem \/ RequestPass \/ RequestReport

SpecRequests == RequestsInit /\ [][RequestsNext]_vars

\* ------------------------------------------------ the functions on their own
\* The characters the strings handed to the functions are made of.
Alphabet == {"1", "5", "0", ".", ",", "$", " ", "(", ")", "-", "a"}

RECURSIVE StringsUpTo(_)
StringsUpTo(n) ==
    IF n = 0 THEN {""}
    ELSE StringsUpTo(n - 1) \cup
         {s \o c : s \in {x \in StringsUpTo(n - 1) : Len(x) = n - 1}, c \in Alphabet}

\* Amounts as the extraction writes them
DecoratedAmounts ==
    {"1 234", "(500.00)", "$1,200.50", "1.2.3", "abc", "()", "(1,5)", "-500", "(-500)"}

\* Descriptions as the extraction writes them
Descriptions ==
    {"PPE", "ppe", " ppe ", "property, plant and equipment", "Property, Plant and Equipment",
     "ABSA", "Bank balances", "Bank   Balances ", " Widget ", "Widget", "widget",
     "Depreciation and amortisation", "Cash  on hand", ""}

AmountStrings == StringsUpTo(MaxLen) \cup DecoratedAmounts

\* The canonical descriptions: the values of the two synonym tables
CanonicalValues ==
    {CANONICAL_DESCRIPTIONS[k] : k \in DOMAIN CANONICAL_DESCRIPTIONS}
        \cup {Backend_CANONICAL_DESCRIPTIONS[k] : k \in DOMAIN Backend_CANONICAL_DESCRIPTIONS}

\* What the functions are handed: a string, a number or null
PureInputs ==
    {RawStr(s) : s \in AmountStrings \cup Descriptions \cup CanonicalValues}
        \cup {RawNum(Num(7)), RawNull}

PureInit ==
    /\ fn = "" /\ arg \in PureInputs /\ ret = None
    /\ domain = FoldDomain
    /\ input_pairs = EmptyBag /\ input_descriptions = {}
    /\ item = NoItem /\ last_pair = NoPair
    /\ n_items = 0 /\ n_pairs = 0
    /\ RootIdle
    /\ BackendIdle
    /\ RequestsIdle

\* clean_value(value) of src/app.py
CallCleanValue ==
    /\ fn = ""
    /\ fn' = "clean_value"
    /\ ret' = clean_value(arg)
    /\ UNCHANGED <<arg, inputVars, rootVars, beVars, requestVars>>

\* get_canonical_name(name) of src/app.py, name a string
CallGetCanonicalName ==
    /\ fn = "" /\ arg.t = "str"
    /\ fn' = "get_canonical_name"
    /\ ret' = RawStr(get_canonical_name(arg.s))
    /\ UNCHANGED <<arg, inputVars, rootVars, beVars, requestVars>>

\* The description lookup of infer_categories_and_structure of
\* src/Backend/app.py, the description a string
CallCanonicalDescription ==
    /\ fn = "" /\ arg.t = "str"
    /\ fn' = "canonical_description"
    /\ ret' = RawStr(canonical_description(arg.s))
    /\ UNCHANGED <<arg, inputVars, rootVars, beVars, requestVars>>

PureNext == CallCleanValue \/ CallGetCanonicalName \/ CallCanonicalDescription

\* ---------------------------------------------------------- specifications
SpecPure == PureInit /\ [][PureNext]_vars
SpecRoot == RootInit /\ [][RootNext]_vars
SpecBackend == BackendInit /\ [][BackendNext]_vars

\* A request to either program
SpecPrograms == (RootInit \/ BackendInit) /\ [][RootNext \/ BackendNext]_vars

\* ------------------------------------------------------------------ claims
\* The entries of the bag of consumed pairs
Entries(bag) == BagToSet(bag)

\* The sum of value(e) over the entries of a bag that satisfy test, each
\* counted as often as it occurs
RECURSIVE Times(_, _)
Times(n, x) == IF n = 0 THEN Num(0) ELSE Add(x, Times(n - 1, x))

\* Every description and amount of the domains, resolved and cleaned once
RootCanonical ==
    [d \in DomainDescriptions |-> get_canonical_name(d)] @@ <<>>

RootCleaned ==
    [a \in UNION {dom.amounts : dom \in Domains} |-> clean_value(a)] @@ <<>>

RECURSIVE SumOver(_, _)
SumOver(entries, bag) ==
    IF entries = {} THEN Num(0)
    ELSE LET e == CHOOSE x \in entries : TRUE
         IN  Add(Times(CopiesIn(e, bag), RootCleaned[e[3]]), SumOver(entries \ {e}, bag))

\* The consumed pairs that count for slot (k, y) of the ledger of src/app.py
RootPairsOf(k, y) ==
    {e \in Entries(input_pairs) :
        RootCanonical[e[1]] = k /\ e[2] = y /\ RootCleaned[e[3]] # None}

\* Slot (k, y) of the ledger of src/app.py, None when absent
RootSlot(k, y) ==
    IF k \in DOMAIN consolidated_items /\ y \in DOMAIN consolidated_items[k]
    THEN consolidated_items[k][y] ELSE None

RootKeys == DOMAIN consolidated_items \cup {RootCanonical[e[1]] : e \in Entries(input_pairs)}

\* The fold of src/app.py is running or just over (the post-processing has
\* not touched the ledger yet).
RootFolding == pc \in {"fold", "item"} \/ (pc = "post" /\ year_index = 1)

\* C1: in the fold of upload_and_convert_pdfs, slot (k, y) of the ledger is
\* the sum of clean_value(v) over all pairs (y, v) consumed so far of items
\* whose description resolves to k and whose clean_value is not None, and the
\* slot is absent when there is no such pair; at the end of the fold this is
\* the sum over all pairs of all items.
C1_FoldSums ==
    RootFolding =>
        \A k \in RootKeys, y \in domain.years :
            IF RootPairsOf(k, y) = {} THEN RootSlot(k, y) = None
            ELSE RootSlot(k, y) = SumOver(RootPairsOf(k, y), input_pairs)

\* Two items with the same resolved description and year holding 100 and 50:
\* the fold is over and the slot holds 150.
C1_Witness ==
    /\ pc = "post" /\ year_index = 1
    /\ input_pairs = SetToBag({<<"ABSA", "2020", RawStr("100")>>,
                               <<"Bank balances", "2020", RawStr("50")>>})
    /\ RootSlot("Bank balances", "2020") = Num(150)

\* Slot (key, year) of the ledger of src/Backend/app.py, None when absent
BackendSlot(key, year) ==
    IF key \in DOMAIN consolidated_items_by_key /\ year \in DOMAIN consolidated_items_by_key[key]
    THEN consolidated_items_by_key[key][year] ELSE None

\* A pair of the item in hand has just been processed, with a numeric year
\* and an amount that parses.
BackendPairParsed ==
    /\ be_pc = "item"
    /\ last_pair # NoPair
    /\ IntParses(last_pair.year)
    /\ ~clean_amount_raises(last_pair.amount)
    /\ clean_amount(last_pair.amount) # None

\* The items [ABSA 2020 "1 000"], [Bank balances 2020 "500"], in this order,
\* have been consumed and nothing else.
C2_Instance ==
    /\ be_pc \in {"item", "fold", "post"} /\ be_year_index <= 1
    /\ input_pairs = SetToBag({<<"ABSA", "2020", RawStr("1 000")>>,
                               <<"Bank balances", "2020", RawStr("500")>>})
    /\ item.Description = DescStr("Bank balances")
    /\ last_pair = [year |-> "2020", amount |-> RawStr("500")]

BackendPairStep == be_pc = "item" /\ n_pairs' = n_pairs + 1

\* C3: in the population loop of generate_excel, a pair with a numeric year
\* whose amount cannot be turned into a number (empty after cleaning, or a
\* float parse failure) leaves every slot of the ledger as it was.
C3_UnparseableAmountKeepsLedger ==
    [][(/\ BackendPairStep
        /\ IntParses(last_pair'.year)
        /\ (\/ clean_amount_raises(last_pair'.amount)
            \/ clean_amount(last_pair'.amount) = None))
       => consolidated_items_by_key' = consolidated_items_by_key]_vars

\* C4: in the population loop of generate_excel, a pair whose year string is
\* not numeric is dropped: the ledger and the year columns stay as they were
\* and no error is raised.
C4_MalformedYearDropped ==
    [][(BackendPairStep /\ ~IntParses(last_pair'.year))
       => /\ consolidated_items_by_key' = consolidated_items_by_key
          /\ be_sorted_years' = be_sorted_years
          /\ be_pc' # "error"]_vars

\* C5: whatever the shape of the items, neither program reaches an error
\* state (an exception nothing catches).
C5_NoFatalFailure == pc # "error" /\ be_pc # "error"

Enclosed(s) == StartsWith(Strip(s), "(") /\ EndsWith(Strip(s), ")")

DecoratedNumber(s) ==
    /\ \A i \in 1..Len(s) : Char(s, i) \in Digits \cup {".", "$", ",", " ", "(", ")"}
    /\ \E i \in 1..Len(s) : Char(s, i) \in Digits
    /\ CountChar(s, ".") <= 1
    /\ \/ CountChar(s, "(") = 0 /\ CountChar(s, ")") = 0
       \/ /\ CountChar(s, "(") = 1 /\ CountChar(s, ")") = 1
          /\ \E i, j \in 1..Len(s) : i < j /\ Char(s, i) = "(" /\ Char(s, j) = ")"

\* The number the digits and the decimal point of s spell: the whole part
\* plus the fraction.
IntendedMagnitude(s) ==
    LET bare  == KeepChars(s, Digits \cup {"."})
        dot   == IF CountChar(bare, ".") = 0 THEN Len(bare) + 1
                 ELSE CHOOSE i \in 1..Len(bare) : Char(bare, i) = "."
        whole == SubSeq(bare, 1, dot - 1)
        frac  == SubSeq(bare, dot + 1, Len(bare))
    IN  Add(Num(DigitsVal(whole)), Dec(DigitsVal(frac), Len(frac)))

\* C6: for every decorated number, clean_value returns the number its digits
\* and decimal point spell, negated exactly when the trimmed string starts
\* with '(' and ends with ')'; "1 234" gives 1234, "(500.00)" gives -500 and
\* "$1,200.50" gives 1200.5.
C6_CleanValueIntended ==
    (fn = "clean_value" /\ arg.t = "str") =>
        /\ DecoratedNumber(arg.s) =>
              ret = IF Enclosed(arg.s) THEN Neg(IntendedMagnitude(arg.s))
                    ELSE IntendedMagnitude(arg.s)
        /\ arg.s = "1 234" => ret = Num(1234)
        /\ arg.s = "(500.00)" => ret = Neg(Num(500))
        /\ arg.s = "$1,200.50" => ret = Dec(12005, 1)

\* clean_value has returned -500 for "(500.00)".
C6_Witness ==
    /\ fn = "clean_value" /\ arg = RawStr("(500.00)")
    /\ DecoratedNumber(arg.s)
    /\ ret = Neg(Num(500))

\* A string that holds no number float() can parse once everything but
\* digits and decimal points is removed.
NoParseableNumber(s) ==
    \/ \A i \in 1..Len(s) : Char(s, i) \notin Digits
    \/ CountChar(s, ".") > 1

\* C7: clean_value returns None or a number for every input, and None for every
\* string without a parseable number: the empty string, a string with no
\* digit such as "abc" or "()", a string with more than one decimal point.
C7_CleanValueNone ==
    /\ fn = "clean_value" => ret = None \/ ret.k = "num"
    /\ (fn = "clean_value" /\ arg.t = "str" /\ NoParseableNumber(arg.s)) => ret = None
    /\ (fn = "clean_value" /\ arg.t = "str" /\ arg.s \in {"", "abc", "()"}) => ret = None

\* clean_value has returned None for a string with two decimal points.
C7_Witness ==
    /\ fn = "clean_value" /\ arg = RawStr("1.2.3")
    /\ NoParseableNumber(arg.s)
    /\ ret = None

\* The table and the key the resolver of each program looks a description up
\* under: src/app.py lower-cases and trims, src/Backend/app.py also collapses
\* every run of whitespace into one space.
ResolverTable == IF fn = "get_canonical_name" THEN CANONICAL_DESCRIPTIONS
                 ELSE Backend_CANONICAL_DESCRIPTIONS

ResolverKey == IF fn = "get_canonical_name" THEN Strip(Lower(arg.s))
               ELSE Lower(normalize_text(arg.s))

Resolved == fn \in {"get_canonical_name", "canonical_description"}

\* C8: a description whose lower-cased, trimmed form is a key of the synonym
\* table resolves to the table's value in both programs; src/app.py returns
\* every other description unchanged; src/Backend/app.py also resolves a
\* description whose lower-cased form with whitespace runs collapsed is a
\* key, and returns unchanged only the descriptions that are no key in that
\* form either.  "PPE", "ppe", " ppe " and "property, plant and equipment"
\* resolve to the same string.
C8_Resolver ==
    Resolved =>
        /\ Strip(Lower(arg.s)) \in DOMAIN ResolverTable
              => ret.s = ResolverTable[Strip(Lower(arg.s))]
        /\ ResolverKey \in DOMAIN ResolverTable => ret.s = ResolverTable[ResolverKey]
        /\ ResolverKey \notin DOMAIN ResolverTable => ret.s = arg.s
        /\ arg.s \in {"PPE", "ppe", " ppe ", "property, plant and equipment"}
              => ret.s = "Property, plant and equipment"

\* The Backend lookup has resolved a description that is a key only once its
\* inner whitespace is collapsed.
C8_Witness ==
    /\ fn = "canonical_description" /\ arg = RawStr("Bank   Balances ")
    /\ Strip(Lower(arg.s)) \notin DOMAIN Backend_CANONICAL_DESCRIPTIONS
    /\ ret = RawStr("Bank balances")

\* C8 as stated: in both programs a description whose lower-cased, trimmed
\* form is no key of the table is returned unchanged.
C8_OtherUnchanged ==
    (Resolved /\ Strip(Lower(arg.s)) \notin DOMAIN ResolverTable) => ret.s = arg.s

\* The surplus/deficit pass of generate_excel runs its body for one year.
BackendPassStep == be_pc = "post" /\ be_year_index' = be_year_index + 1

\* C9: in the surplus/deficit pass of generate_excel, when both slots of a
\* year hold a value and exactly one of the two is strictly positive, the
\* body leaves the strictly positive slot as it was and clears the other.
C9_PositiveWins ==
    [][BackendPassStep =>
        LET year    == be_sorted_years[be_year_index]
            surplus == BackendSlot(surplus_key, year)
            deficit == BackendSlot(deficit_key, year)
        IN  (surplus # None /\ deficit # None /\ IsPos(surplus) # IsPos(deficit)) =>
                IF IsPos(surplus)
                THEN /\ consolidated_items_by_key'[surplus_key][year] = surplus
                     /\ consolidated_items_by_key'[deficit_key][year] = None
                ELSE /\ consolidated_items_by_key'[deficit_key][year] = deficit
                     /\ consolidated_items_by_key'[surplus_key][year] = None]_vars

\* Surplus 500 and deficit -500 for 2021 have gone through the pass: the
\* surplus is kept and the deficit slot cleared.
C9_Witness ==
    /\ be_pc = "post" /\ be_year_index > Len(be_sorted_years)
    /\ input_pairs = SetToBag({<<"Accumulated surplus", "2021", RawStr("500")>>,
                               <<"Accumulated deficit", "2021", RawStr("(500)")>>})
    /\ BackendSlot(surplus_key, 2021) = Num(500)
    /\ BackendSlot(deficit_key, 2021) = None

\* C11: in the surplus/deficit pass of generate_excel, when exactly one of
\* the two slots of a year holds a value and that value is negative, the body
\* leaves the absolute value in the other slot and clears the slot that held
\* it: a lone negative deficit becomes a positive surplus, a lone negative
\* surplus a positive deficit.
C11_LoneNegativeConverted ==
    [][BackendPassStep =>
        LET year    == be_sorted_years[be_year_index]
            surplus == BackendSlot(surplus_key, year)
            deficit == BackendSlot(deficit_key, year)
        IN  /\ (surplus = None /\ deficit # None /\ IsNeg(deficit)) =>
                /\ consolidated_items_by_key'[surplus_key][year] = Abs(deficit)
                /\ consolidated_items_by_key'[deficit_key][year] = None
            /\ (deficit = None /\ surplus # None /\ IsNeg(surplus)) =>
                /\ consolidated_items_by_key'[deficit_key][year] = Abs(surplus)
                /\ consolidated_items_by_key'[surplus_key][year] = None]_vars

\* A lone deficit of (500) for 2021 has gone through the pass: the surplus
\* slot holds 500 and the deficit slot is cleared.
C11_Witness ==
    /\ be_pc = "post" /\ be_year_index > Len(be_sorted_years)
    /\ input_pairs = SetToBag({<<"Accumulated deficit", "2021", RawStr("(500)")>>})
    /\ BackendSlot(surplus_key, 2021) = Num(500)
    /\ BackendSlot(deficit_key, 2021) = None

\* for year in sorted_years: the whole pass, from year i of years on
RECURSIVE BackendPass(_, _, _, _)
BackendPass(items, order, years, i) ==
    IF i > Len(years) THEN items
    ELSE BackendPass(BackendPostProcessYear(items, order, years[i]), order, years, i + 1)

\* C12: the surplus/deficit pass of generate_excel is idempotent: run again
\* over the ledger it has produced, it leaves that ledger as it is.
C12_PassIdempotent ==
    be_pc = "done" =>
        BackendPass(consolidated_items_by_key, key_order, be_sorted_years, 1)
            = consolidated_items_by_key

\* The descriptions of the rows of a sheet
RowDescriptions(sheet) == {sheet[i].description : i \in 1..Len(sheet)}

\* generate_excel: a description of MASTER_STRUCTURE has a row exactly when
\* the ledger holds a value for it in some year.
BackendRowIffData ==
    be_pc = "done" =>
        \A key \in Range(BackendMasterKeys) :
            key[1] \in RowDescriptions(be_rows)
                <=> \E k \in DOMAIN consolidated_items_by_key :
                        k[1] = key[1] /\ HasData(consolidated_items_by_key[k])

\* generate_excel_report: the same of src/app.py
RootRowIffData ==
    pc = "done" =>
        \A d \in Range(MasterItems(MASTER_STRUCTURE)) :
            d \in RowDescriptions(rows)
                <=> (d \in DOMAIN consolidated_items /\ HasData(consolidated_items[d]))

\* C13: in both programs a description listed in MASTER_STRUCTURE has a row
\* in the report if and only if the ledger holds a non-null value for it in
\* at least one year; an entry without values has no row.
C13_RowIffData == BackendRowIffData /\ RootRowIffData

\* The descriptions the items of the request resolve to, in each program
ResolvedByBackend == {canonical_description(d) : d \in input_descriptions}

ResolvedByRoot == {get_canonical_name(d) : d \in input_descriptions}

\* C14 as stated: every row of the report carries the resolved description
\* of at least one item of the input, the surplus/deficit pass included.
C14_RowsComeFromItems ==
    /\ be_pc = "done" => RowDescriptions(be_rows) \subseteq ResolvedByBackend
    /\ pc = "done" => RowDescriptions(rows) \subseteq ResolvedByRoot

\* The account the surplus/deficit pass of generate_excel can move a value
\* to: the other one of the pair, for each of the two the input resolves to.
ConvertedTo(resolved) ==
    {d \in {"Accumulated surplus", "Accumulated deficit"} :
        \E other \in {"Accumulated surplus", "Accumulated deficit"} \ {d} :
            other \in resolved}

\* C14: every row of the report carries the resolved description of at least
\* one item of the input, or, in generate_excel of src/Backend/app.py, is the
\* "Accumulated surplus" or "Accumulated deficit" row while an item of the
\* input resolves to the other of the two.
C14_RowsComeFromItemsOrConversion ==
    /\ be_pc = "done" =>
          RowDescriptions(be_rows) \subseteq
              ResolvedByBackend \cup ConvertedTo(ResolvedByBackend)
    /\ pc = "done" => RowDescriptions(rows) \subseteq ResolvedByRoot

\* The only item of the request is an "Accumulated deficit" of (500) for
\* 2021, and the sheet has an "Accumulated surplus" row of 500.
C14_Witness ==
    /\ be_pc = "done"
    /\ input_descriptions = {"Accumulated deficit"}
    /\ \E i \in 1..Len(be_rows) :
          /\ be_rows[i].description = "Accumulated surplus"
          /\ \E j \in 1..Len(be_rows[i].cells) : be_rows[i].cells[j] = Num(500)

\* The rows of the sheet that MASTER_STRUCTURE lists, as their positions
SchemaRows(sheet) == {i \in 1..Len(sheet) : InMaster(sheet[i].description)}

\* The place of a listed description in the traversal of MASTER_STRUCTURE
\* as it is declared: category, subcategory, position in the list.
DeclaredPlace(description) ==
    CHOOSE i \in 1..Len(BackendMasterKeys) : BackendMasterKeys[i] = MasterKeyOf(description)

CategoryPlace(category) ==
    CHOOSE c \in 1..Len(Backend_MASTER_STRUCTURE) :
        Backend_MASTER_STRUCTURE[c].category = category

\* key1 comes before key2: by category as declared, then by subcategory name
\* in ascending order with "N/A" after every other name, then by the place
\* in the subcategory's list.
SortedBefore(key1, key2) ==
    \/ CategoryPlace(key1[2]) < CategoryPlace(key2[2])
    \/ /\ key1[2] = key2[2]
       /\ \/ key1[3] # "N/A" /\ key2[3] = "N/A"
          \/ key1[3] # "N/A" /\ key2[3] # "N/A" /\ StrLess(key1[3], key2[3])
          \/ key1[3] = key2[3] /\ DeclaredPlace(key1[1]) < DeclaredPlace(key2[1])

UnmappedRows(sheet) == {i \in 1..Len(sheet) : ~InMaster(sheet[i].description)}

C17_NoDescriptionLost ==
    /\ be_pc = "done" =>
          \A key \in DOMAIN consolidated_items_by_key :
              HasData(consolidated_items_by_key[key])
                  => key[1] \in RowDescriptions(be_rows)
    /\ pc = "done" =>
          \A d \in DOMAIN consolidated_items :
              HasData(consolidated_items[d]) => d \in RowDescriptions(rows)

\* The ledger holds the descriptions of MASTER_STRUCTURE and no other, every
\* year of each absent.
SchemaSeededOnly(items) ==
    /\ DOMAIN items = Range(BackendMasterKeys)
    /\ \A key \in DOMAIN items : ~HasData(items[key])
    /\ UnmappedKeys(items) = {}

\* generate_excel on a request without items: the seeded ledger, no row
EmptyInputReport ==
    /\ (be_pc \in {"post", "done"} /\ n_items = 0)
          => SchemaSeededOnly(consolidated_items_by_key)
    /\ (be_pc = "done" /\ n_items = 0) => be_rows = <<>>
    /\ n_items = 0 => (be_pc # "error" /\ pc # "error")

\* C18 as stated: a request without items ends without an error result in
\* both programs, with the schema-seeded ledger and no row.
C18_EmptyInputValid ==
    /\ EmptyInputReport
    /\ n_items = 0 => (be_pc # "rejected" /\ pc # "rejected")

\* C18: generate_excel turns a request without items into the schema-seeded
\* ledger with every year absent and a sheet without rows, and raises no
\* error; upload_pdfs answers 400 when no file gave parsed data, and
\* upload_and_convert_pdfs answers 400 whenever no item was extracted and
\* never builds a ledger or a report from an empty request.
C18_EmptyInputOutcome ==
    /\ EmptyInputReport
    /\ be_pc = "rejected" => (n_items = 0 /\ consolidated_items_by_key = EmptyDict)
    /\ pc = "rejected" => (n_items = 0 /\ consolidated_items = EmptyDict)
    /\ pc \in {"post", "done"} => n_items > 0

\* generate_excel has written the sheet of a request without items.
C18_Witness ==
    /\ be_pc = "done" /\ n_items = 0
    /\ SchemaSeededOnly(consolidated_items_by_key)
    /\ be_rows = <<>>

\* The call run to its end with nothing else in progress
RECURSIVE RunAlone(_, _)
RunAlone(r, ledger) ==
    IF r.pc \in {"done", "rejected"} THEN [request |-> r, ledger |-> ledger]
    ELSE LET next == RequestStep(r, ledger)
         IN  RunAlone(next.request, next.ledger)

\* The outcome of every call run alone, worked out once
AloneResult ==
    [program \in {"root", "backend"}, items \in RequestInputs |->
        RunAlone(NewRequest(program, items), EmptyDict)] @@ <<>>

\* C19: however the steps of two calls interleave, a call that has ended
\* holds the ledger and the rows it ends with when it runs alone on its own
\* items.
C19_Isolated ==
    \A id \in 1..2 :
        requests[id].pc \in {"done", "rejected"} =>
            LET alone == AloneResult[requests[id].program, requests[id].items]
            IN  /\ requests[id] = alone.request
                /\ ledgers[id] = alone.ledger

\* A call of upload_and_convert_pdfs has ended while another one is in the
\* middle of its consolidation loop, and the two hold different ledgers.
C19_Witness ==
    /\ requests[1].program = "root"
    /\ requests[1].pc = "done"
    /\ requests[2].pc = "fold" /\ requests[2].i = 2
    /\ ledgers[1] # EmptyDict /\ ledgers[2] # EmptyDict
    /\ ledgers[1] # ledgers[2]

\* Both values are strictly positive, or both strictly negative.
SameSign(a, b) == (IsPos(a) /\ IsPos(b)) \/ (IsNeg(a) /\ IsNeg(b))

PassStep == pc = "post" /\ year_index' = year_index + 1

\* Slot (k, y) of the ledger of src/app.py after the step, None when absent
RootSlotAfter(k, y) ==
    IF k \in DOMAIN consolidated_items' /\ y \in DOMAIN consolidated_items'[k]
    THEN consolidated_items'[k][y] ELSE None

\* C21: in the surplus/deficit pass of upload_and_convert_pdfs, when both
\* slots of a year hold a value, the body only clears: a slot that still
\* holds a value afterwards holds the value it held before.
C21_PassOnlyClears ==
    [][PassStep =>
        LET year    == sorted_years[year_index]
            surplus == RootSlot("Accumulated surplus", year)
            deficit == RootSlot("Accumulated deficit", year)
        IN  (surplus # None /\ deficit # None) =>
                /\ RootSlotAfter("Accumulated surplus", year) \in {surplus, None}
                /\ RootSlotAfter("Accumulated deficit", year) \in {deficit, None}]_vars

\* Slot (key, year) of the ledger of src/Backend/app.py after the step
BackendSlotAfter(key, year) ==
    IF key \in DOMAIN consolidated_items_by_key'
          /\ year \in DOMAIN consolidated_items_by_key'[key]
    THEN consolidated_items_by_key'[key][year] ELSE None

\* Exactly one of the two values is there, and it is zero or positive.
LoneNonNegative(surplus, deficit) ==
    \/ surplus = None /\ deficit # None /\ ~IsNeg(deficit)
    \/ deficit = None /\ surplus # None /\ ~IsNeg(surplus)

\* C22: in the surplus/deficit pass of both programs, when exactly one of the
\* two slots of a year holds a value and that value is zero or positive, the
\* body changes neither slot of that year.
C22_LoneNonNegativeKept ==
    [][/\ PassStep =>
            LET year    == sorted_years[year_index]
                surplus == RootSlot("Accumulated surplus", year)
                deficit == RootSlot("Accumulated deficit", year)
            IN  LoneNonNegative(surplus, deficit) =>
                    /\ RootSlotAfter("Accumulated surplus", year) = surplus
                    /\ RootSlotAfter("Accumulated deficit", year) = deficit
       /\ BackendPassStep =>
            LET year    == be_sorted_years[be_year_index]
                surplus == BackendSlot(surplus_key, year)
                deficit == BackendSlot(deficit_key, year)
            IN  LoneNonNegative(surplus, deficit) =>
                    /\ BackendSlotAfter(surplus_key, year) = surplus
                    /\ BackendSlotAfter(deficit_key, year) = deficit]_vars

\* A lone deficit of 500 for 2021 has gone through the pass of src/app.py:
\* the deficit slot still holds 500 and there is no surplus.
C22_Witness ==
    /\ pc = "post" /\ year_index > Len(sorted_years)
    /\ input_pairs = SetToBag({<<"Accumulated deficit", "2021", RawStr("500")>>})
    /\ RootSlot("Accumulated deficit", "2021") = Num(500)
    /\ RootSlot("Accumulated surplus", "2021") = None

\* clean_value has been handed a string of which the regular expression
\* leaves a decimal point and nothing else.
OnlyDecimalPoint ==
    /\ fn = "clean_value" /\ arg.t = "str"
    /\ KeepChars(Strip(arg.s), Digits \cup {"."}) = "."

\* C23 as stated: clean_value returns a number, not None, for a string that
\* consists solely of a decimal point once every other character is stripped.
C23_PointIsValid == OnlyDecimalPoint => ret # None

\* C23: clean_value returns None for a string that consists solely of a
\* decimal point once every character that is no digit and no decimal point
\* is stripped, such as "." or "$."; a string of which only digits are left
\* gives the number they spell.
C23_PointIsNone ==
    /\ OnlyDecimalPoint => ret = None
    /\ (/\ fn = "clean_value" /\ arg.t = "str"
        /\ KeepChars(Strip(arg.s), Digits \cup {"."}) # ""
        /\ CountChar(arg.s, ".") = 0)
          => /\ ret # None
             /\ Abs(ret) = Num(DigitsVal(KeepChars(arg.s, Digits)))

\* clean_value has returned None for "$.".
C23_Witness ==
    /\ fn = "clean_value" /\ arg = RawStr("$.")
    /\ ret = None

\* Every amount of the domains as the population loop of generate_excel
\* reads it, None when it raises or is empty after cleaning
BackendCleaned ==
    [a \in UNION {dom.amounts : dom \in BackendDomains} |->
        IF clean_amount_raises(a) THEN None ELSE clean_amount(a)] @@ <<>>

\* The value is a float.
IsNumber(v) == v.k = "num"

\* C24: in every state of the consolidation and of the surplus/deficit pass
\* of both programs, a slot of the ledger is absent (no entry in src/app.py,
\* None in src/Backend/app.py) or a number, and a slot that holds the number
\* zero holds it because a pair of the input with that description and year
\* carries a parseable amount: zero never stands for "no value".
C24_LedgerTypes ==
    /\ \A k \in DOMAIN consolidated_items : \A y \in DOMAIN consolidated_items[k] :
          LET v == consolidated_items[k][y]
          IN  /\ IsNumber(v)
              /\ IsZero(v) =>
                    \E e \in Entries(input_pairs) :
                        /\ RootCanonical[e[1]] = k /\ e[2] = y
                        /\ RootCleaned[e[3]] # None
    /\ \A key \in DOMAIN consolidated_items_by_key :
          \A year \in DOMAIN consolidated_items_by_key[key] :
              LET v == consolidated_items_by_key[key][year]
              IN  /\ v = None \/ IsNumber(v)
                  /\ (v # None /\ IsZero(v)) =>
                        \E e \in Entries(input_pairs) :
                            /\ InferredItem[e[1], ""].Description = key[1]
                            /\ IntParses(e[2]) /\ IntOf(e[2]) = year
                            /\ BackendCleaned[e[3]] # None
                            /\ IsZero(BackendCleaned[e[3]])

\* generate_excel has consolidated a surplus of "0" for 2020: the surplus
\* slot holds the number zero, the deficit slot, which no item fills, None.
C24_Witness ==
    /\ be_pc = "done"
    /\ input_pairs = SetToBag({<<"Accumulated surplus", "2020", RawStr("0")>>})
    /\ BackendSlot(surplus_key, 2020) = Num(0)
    /\ BackendSlot(deficit_key, 2020) = None

\* The fields of an input item as the request hands it over
GivenFields(it) ==
    (IF it.Description.t = "missing" THEN {} ELSE {"Description"}) \cup {"AmountsByYear"}

\* The fields of that item once infer_categories_and_structure has handled
\* it: item["Description"], item["Category"] and item["SubCategory"] are
\* assigned on the item itself, "AmountsByYear" is not touched.
HeldFields == DOMAIN structured_item \cup {"AmountsByYear"}

\* generate_excel has taken an item whose description is a string or missing.
BackendItemTaken ==
    /\ be_pc \in {"fold", "item", "post", "done"}
    /\ n_items > 0 /\ item.Description.t \in {"str", "missing"}

\* C25: an input item has the same description and the same fields after
\* generate_excel has handled it as before.  (The consolidation of
\* src/app.py assigns to no item, and neither program assigns to an item's
\* year/amount mapping.)
C25_InputReadOnly ==
    BackendItemTaken =>
        /\ item.Description.t = "str" => structured_item.Description = item.Description.s
        /\ HeldFields = GivenFields(item)

\* The resolver that has been called, as a function of the description
Resolve(d) ==
    IF fn = "get_canonical_name" THEN get_canonical_name(d) ELSE canonical_description(d)

\* C26: the resolver of each program is idempotent: the description it has
\* returned resolves to itself; and every canonical value of the program's
\* synonym table resolves to itself.
C26_ResolverIdempotent ==
    Resolved =>
        /\ Resolve(ret.s) = ret.s
        /\ arg.s \in {ResolverTable[k] : k \in DOMAIN ResolverTable} => ret.s = arg.s

\* get_canonical_name has resolved the synonym " ppe ", and what it returned
\* resolves to itself.
C26_Witness ==
    /\ fn = "get_canonical_name" /\ arg = RawStr(" ppe ")
    /\ ret = RawStr("Property, plant and equipment")
    /\ get_canonical_name(ret.s) = ret.s

\* The descriptions MASTER_STRUCTURE lists, in the program of the resolver
\* that has been called
SchemaDescriptions ==
    IF fn = "get_canonical_name" THEN Range(MasterItems(MASTER_STRUCTURE))
    ELSE Range(MasterItems(Backend_MASTER_STRUCTURE))

\* C27: every description MASTER_STRUCTURE lists resolves to itself, in both
\* programs, so that an item can be filed under every row of the schema.
C27_SchemaFixedPoints ==
    (Resolved /\ arg.s \in SchemaDescriptions) => ret.s = arg.s

\* C28: the sheet of generate_excel holds at most one row per description.
C28_OneRowPerDescription ==
    be_pc = "done" =>
        \A i, j \in 1..Len(be_rows) :
            be_rows[i].description = be_rows[j].description => i = j

\* for year in sorted_years: the whole pass of src/app.py, from year i of
\* years on
RECURSIVE RootPass(_, _, _)
RootPass(items, years, i) ==
    IF i > Len(years) THEN items
    ELSE RootPass(PostProcessYear(items, years[i]), years, i + 1)

\* The ledger as the bag of the pairs and the set of the descriptions of the
\* items determine it, in whatever order the items came: a key for every
\* resolved description, and under it the sum of the amounts of every year
\* that has one.
LedgerOfBag ==
    [k \in {RootCanonical[d] : d \in input_descriptions} |->
        [y \in {y \in all_years : RootPairsOf(k, y) # {}} |->
            SumOver(RootPairsOf(k, y), input_pairs)]]

\* C29: the ledger of upload_and_convert_pdfs after the fold and the
\* surplus/deficit pass does not depend on the order of the items: it is the
\* ledger the bag of their (description, year, amount) pairs and the set of
\* their descriptions determine, both of which a permutation of the items
\* leaves as they are.
C29_OrderIndependent ==
    ((pc = "post" /\ year_index > Len(sorted_years)) \/ pc = "done") =>
        consolidated_items = RootPass(LedgerOfBag, sorted_years, 1)

\* "Bank balances" 50 came first and its synonym "ABSA" 100 second: the
\* ledger holds 150, as it does for the two items the other way round.
C29_Witness ==
    /\ pc = "done"
    /\ item.Description.s = "ABSA"
    /\ input_pairs = SetToBag({<<"ABSA", "2020", RawStr("100")>>,
                               <<"Bank balances", "2020", RawStr("50")>>})
    /\ consolidated_items = [k \in {"Bank balances"} |-> [y \in {"2020"} |-> Num(150)]]

\* C30: clean_value returns a negative number only for a string that, trimmed,
\* starts with '(' and ends with ')'; for every other string it returns None
\* or a number that is zero or positive, a minus sign in the string
\* notwithstanding.
C30_NegativeOnlyInParentheses ==
    (fn = "clean_value" /\ arg.t = "str") =>
        /\ (ret # None /\ IsNeg(ret)) => Enclosed(arg.s)
        /\ ~Enclosed(arg.s) => (ret = None \/ ~IsNeg(ret))
        /\ arg.s = "-500" => ret = Num(500)

\* clean_value has returned 500 for "-500".
C30_Witness ==
    /\ fn = "clean_value" /\ arg = RawStr("-500")
    /\ ret = Num(500)

====
